---- MODULE Spec2Model ----
(***************************************************************************)
(* Model of the adaptive content-fetching cascade of news_updater:         *)
(* fetch_url_content (news_app/tasks.py) with the strategies it calls:     *)
(* fetch_rss_feed/_format_feed, fetch_with_jina, the direct-HTTP retry     *)
(* loop and _fetch_with_browser (news_app/browser_fetch.py).               *)
(*                                                                         *)
(* A text is represented by the features the code inspects:                *)
(*   len    number of characters                 (len(text))               *)
(*   ind    number of problematic indicators found in the text             *)
(*   paras  number of non-blank lines with more than 10 words              *)
(*   words  number of whitespace-separated words                           *)
(*   top    count of the most frequent word that is longer than 3          *)
(*          characters and is not a stopword                               *)
(* A URL is [scheme, host, path]; host is the sequence of its dot-         *)
(* separated labels and the substring tests of the code on the domain are  *)
(* modelled as contiguous sub-sequence tests on the labels.                *)
(***************************************************************************)
EXTENDS Integers, Sequences, FiniteSets, TLC

----------------------------------------------------------------------------
(* Bounds of the model *)

\* largest number of problematic indicators of a sample text
MaxInd == 5
\* largest number of meaningful paragraphs of a sample text
MaxParas == 3

----------------------------------------------------------------------------
(* Program constants *)

\* tasks.py:138  len(text) < 200
MinSuitableLen == 200
\* tasks.py:161  indicator_count >= 5
IndicatorThreshold == 5
\* tasks.py:169  len(meaningful_paragraphs) < 3
MinParagraphs == 3
\* tasks.py:175  len(words) > 100
RepetitionMinWords == 100
\* tasks.py:185  count > 100
RepetitionMinCount == 100
\* tasks.py:185  frequency > 0.1, as count * 10 > len(words)
RepetitionFreqDen == 10
\* tasks.py:642, 819, 842  len(...) > 500
MinContentLen == 500
\* tasks.py:644, 795  text[:60000]
FeedCap == 60000
\* tasks.py:962  len(response.text) < 100
MinResponseLen == 100
\* tasks.py:928  max_retries = 2
max_retries == 2
\* browser_fetch.py:389  text[:15000]
BrowserCap == 15000

\* Python's None
None == [isNone |-> TRUE]

JINA_BLOCKLIST ==
    { <<"mercurynews", "com">>, <<"theverge", "com">>, <<"wired", "com">>,
      <<"techcrunch", "com">>, <<"apnews", "com">> }

problematic_sites ==
    { <<"mv-voice", "com">>, <<"paloaltoonline", "com">>,
      <<"almanacnews", "com">>, <<"axios", "com">>, <<"wsj", "com">> }

----------------------------------------------------------------------------
(* Inputs *)

\* a text by the features the program reads: its length, the listed
\* indicators it contains, its lines of more than 10 words, its words, the
\* count of its most frequent counted word, and whether it ends with the
\* appended "..."
Txt(l, i, p, w, t) ==
    [len |-> l, ind |-> i, paras |-> p, words |-> w, top |-> t, marker |-> FALSE]

\* sample texts: empty, too short, suitable but at most 500 characters,
\* longer than 500 characters with and without defects, repetitive
SampleTexts ==
    { Txt(0, 0, 0, 0, 0),
      Txt(150, 0, 2, 25, 2),
      Txt(6000, 0, MaxParas, 1200, 150) }
    \cup { Txt(l, i, p, 90, 4) : l \in {300, 600}, i \in {0, MaxInd},
                                 p \in {2, MaxParas} }

SampleHosts ==
    { <<"example", "com">>, <<"www", "wsj", "com">>,
      <<"www", "theverge", "com">>, <<"apnews", "com">> }

SampleUrls ==
    [scheme : {"https:"}, host : SampleHosts, path : {"", "/news"}]
    \cup { [scheme |-> "http:", host |-> <<"example", "com">>, path |-> ""] }

\* outcomes of session.get(url) followed by raise_for_status()
Responses ==
    { [exc |-> e, status |-> 0, len |-> 0, captcha |-> FALSE, cloudflare |-> FALSE]
        : e \in {"ConnectionError", "Timeout", "Exception"} }
    \cup { [exc |-> "", status |-> s, len |-> 5000, captcha |-> FALSE, cloudflare |-> FALSE]
        : s \in {403, 429, 500} }
    \cup { [exc |-> "", status |-> 200, len |-> l, captcha |-> FALSE, cloudflare |-> FALSE]
        : l \in {0, 50, 5000} }
    \cup { [exc |-> "", status |-> 200, len |-> 5000, captcha |-> TRUE, cloudflare |-> FALSE],
           [exc |-> "", status |-> 200, len |-> 5000, captcha |-> FALSE, cloudflare |-> TRUE] }

----------------------------------------------------------------------------
(* Pure functions *)

\* Python truthiness of a str-or-None value
Truthy(t) == t # None /\ t.len > 0

\* pattern in domain
Contains(domain, pat) ==
    \E i \in 1..Len(domain) :
        /\ i + Len(pat) - 1 <= Len(domain)
        /\ SubSeq(domain, i, i + Len(pat) - 1) = pat

\* text[:cap] + "..." if len(text) > cap else text
Truncate(t, cap) ==
    IF t.len > cap THEN [t EXCEPT !.len = cap + 3, !.marker = TRUE] ELSE t

\* rejects at exactly 5 indicators instead of at 5 or more
is_content_suitable_for_llm_exactly5(text) ==
    /\ Truthy(text)
    /\ ~(text.len < MinSuitableLen)
    /\ ~(text.ind = IndicatorThreshold)
    /\ ~(text.paras < MinParagraphs)
    /\ ~(/\ text.words > RepetitionMinWords
         /\ text.top * RepetitionFreqDen > text.words
         /\ text.top > RepetitionMinCount)

is_content_suitable_for_llm(text) ==
    /\ Truthy(text)
    /\ ~(text.len < MinSuitableLen)
    /\ ~(text.ind >= IndicatorThreshold)
    /\ ~(text.paras < MinParagraphs)
    /\ ~(/\ text.words > RepetitionMinWords
         /\ text.top * RepetitionFreqDen > text.words
         /\ text.top > RepetitionMinCount)

\* _format_feed without the minimum-length test
_format_feed_ungated(text) == Truncate(text, FeedCap)

\* _format_feed: the joined text, or None when it is not longer than 500
_format_feed(text) ==
    IF text.len > MinContentLen THEN Truncate(text, FeedCap) ELSE None

\* fetch_rss_feed: found is the formatted text of the candidate feed that
\* parsed, or None when no candidate parsed
fetch_rss_feed(found) ==
    IF found = None THEN None ELSE _format_feed(found)

\* fetch_with_jina: resp is the text of the reader's answer, None on any error
fetch_with_jina(resp) ==
    IF resp = None THEN None ELSE Truncate(resp, FeedCap)

\* _fetch_with_browser when no backend raised: the extracted text of the
\* rendered page, capped
_fetch_with_browser(page) == Truncate(page, BrowserCap)

\* the Extractor applied to a response body: any extracted text
process_html_content(response) == SampleTexts

\* domain = url.split('//')[1].split('/')[0]
Domain(u) == u.host

\* blocklist test by equality instead of containment
jina_blocked_exact(domain) == domain \in JINA_BLOCKLIST

jina_blocked(domain) == \E blocked \in JINA_BLOCKLIST : Contains(domain, blocked)

\* problematic-site test by equality instead of containment
is_problematic_exact(domain) == domain \in problematic_sites

is_problematic(domain) == \E site \in problematic_sites : Contains(domain, site)

\* domain_url != url, with domain_url = f"https://{domain}"
HomepageDiffers(u) == ~(u.scheme = "https:" /\ u.path = "")

\* acceptance test with the suitability verdict inverted
Accepts_inverted(content) ==
    /\ Truthy(content)
    /\ content.len > MinContentLen
    /\ ~is_content_suitable_for_llm(content)

\* the acceptance test applied to the feed and to the reader-proxy content
Accepts(content) ==
    /\ Truthy(content)
    /\ content.len > MinContentLen
    /\ is_content_suitable_for_llm(content)

----------------------------------------------------------------------------
(* State of one fetch_url_content call *)

VARIABLES
    pc,            \* position in fetch_url_content
    url, use_browser, use_jina,   \* arguments
    rss_content,   \* result of fetch_rss_feed
    jina_content,  \* result of fetch_with_jina
    attempt,       \* loop variable of the direct-HTTP loop
    calls,         \* strategies invoked so far, in order
    responses,     \* outcome of each request of the target URL, in order
    ret,           \* value returned
    method,        \* strategy that produced ret
    raised,        \* TRUE when the call ended by propagating an exception
    browser_ret    \* value the last _fetch_with_browser call returned

vars == <<pc, url, use_browser, use_jina, rss_content, jina_content,
          attempt, calls, responses, ret, method, raised, browser_ret>>

----------------------------------------------------------------------------
(* State of one digest run (send_news_update) and of the browser fetches   *)
(* (_fetch_with_browser) on the host.  Worker 1 is the digest run, worker 2 *)
(* stands for the browser fetches of another run on the same host.         *)

VARIABLES
    d_pc,            \* position in send_news_update
    sections,        \* the user's news sections: the sources field of each
    sec_i,           \* index of the section being processed
    source_urls,     \* source_urls of the current section
    url_i,           \* index of the next source URL
    sources_content, \* sources_content of the current section
    events,          \* start and end of every fetch_url_content call
    prompt_inputs,   \* sources_content handed to summarization, per section
    sessions,        \* every BrowserSession created: "open" or "closed"
    browser_session, \* the session bound by the with statement, 0 if none
    sent,            \* TRUE when the email was sent
    d_result,        \* return value of send_news_update
    run_error,       \* what aborted the run, "" if nothing
    browser_calls,   \* browser fetches made by the current fetch_url_content
    b_pc,            \* position of each worker in _fetch_with_browser
    procs,           \* owners of the live browser processes on the host
    driver,          \* per worker: Selenium driver "none", "open" or "quit"
    b_result,        \* per worker: how its last browser fetch ended
    foreign_kills,   \* <<killer, owner>> for every process killed by another
    attempts,        \* per worker: the backends its current or last browser
                     \* fetch tried, in order, each with its outcome
    doc,             \* the document last given to is_content_suitable_for_llm
    verdict,         \* its return value: "True" or "False", "" before a call
    path,            \* the extraction path last run: browser, jina or feed
    page,            \* the text that path had before its cap
    extracted,       \* the value that path returned
    prev_doc,        \* the document classified before doc, when doc is that
                     \* document with more phrases in it
    prev_verdict,    \* the return value for prev_doc
    f_pc,            \* position in fetch_rss_feed
    declared,        \* the feed links of the fetched page, as URLs
    link_tag_feeds,  \* link_tag_feeds
    seen,            \* seen
    link_i,          \* index of the next element of link_tag_feeds
    path_i,          \* index of the next element of RSS_FEED_PATHS
    consecutive_misses, \* consecutive_misses
    requests,        \* every feed candidate requested, with its outcome
    feed,            \* the feed parsed last, None if none
    result,          \* what _format_feed returned last
    f_ret,           \* return value of fetch_rss_feed
    x_pc,            \* position in the extraction of _fetch_with_browser
    html,            \* the page being extracted and the backend that got it
    main_content,    \* main_content: the element selected, None if none
    x_text,          \* what the returned text was taken from
    c_pc,            \* position in the clean-up of news items
    items,           \* the NewsItem rows
    options,         \* days, keep_per_section and dry_run of the clean-up
    section_counts,  \* the (user, section) pairs still to be visited
    protected_ids,   \* protected_ids
    deleted,         \* the rows deleted by the clean-up
    delete_count,    \* delete_count
    n_pc,            \* position in the item handling of send_news_update
    run,             \* number of the digest run, 0 before the first
    n_sec,           \* the section being summarized
    news_table,      \* the stored NewsItem rows of the user, oldest first
    recent_news_items, \* recent_news_items
    news_items,      \* news_items
    store_i,         \* index of the next item of news_items to store
    section_result,  \* section_result
    sections_data,   \* sections_data
    emails,          \* every digest email sent: the run and its sections_data
    n_result,        \* return value of each finished run
    s_pc,            \* the scheduler: "setup", "running" or "day_over"
    time_slots,      \* the TimeSlot rows: <<user, minute of the day>>
    due,             \* instant the next check_scheduled_emails is due, in
                     \* ticks since the midnight before the first one
    executions,      \* number of check_scheduled_emails executions so far
    enqueued,        \* per TimeSlot row: times send_news_update was enqueued
    registered,      \* per user: a User with a UserProfile exists
    email_verified,  \* per user: UserProfile.email_verified
    codes,           \* per user: number of unused VerificationCode rows
    owned,           \* per user: the names of the user's NewsSection rows
    has_slots,       \* the users with at least one TimeSlot row
    task_queue,      \* the send_news_update tasks enqueued, by user
    last_run,        \* the last send_news_update run: the user, the flag
                     \* and the number of sections the user had at that
                     \* moment, and whether the digest email was sent
    r_pc,            \* update_section_order: "setup", "ready" or "done"
    news_sections,   \* the NewsSection rows: id -> owner and order
    before,          \* the rows when the request arrived
    request,         \* the request: its user and the order list of its body
    status           \* status of the JsonResponse, 0 before the request

dvars == <<d_pc, sections, sec_i, source_urls, url_i, sources_content, events,
           prompt_inputs, sessions, browser_session, sent, d_result,
           run_error, browser_calls>>

bvars == <<b_pc, procs, driver, b_result, foreign_kills, attempts>>

tvars == <<doc, verdict, path, page, extracted, prev_doc, prev_verdict>>

fvars == <<f_pc, declared, link_tag_feeds, seen, link_i, path_i,
           consecutive_misses, requests, feed, result, f_ret>>

xvars == <<x_pc, html, main_content, x_text>>

cvars == <<c_pc, items, options, section_counts, protected_ids, deleted,
           delete_count>>

nvars == <<n_pc, run, n_sec, news_table, recent_news_items, news_items,
           store_i, section_result, sections_data, emails, n_result>>

\* every variable outside the fetch, digest, browser, text, feed, extraction
\* and clean-up parts
svars == <<s_pc, time_slots, due, executions, enqueued>>

wvars == <<registered, email_verified, codes, owned, has_slots, task_queue,
           last_run>>

rvars == <<r_pc, news_sections, before, request, status>>

ovars == <<nvars, svars, wvars, rvars>>


InitFetch ==
    /\ pc = "idle"
    /\ url = [scheme |-> "https:", host |-> <<"example", "com">>, path |-> ""]
    /\ use_browser = "None"
    /\ use_jina = TRUE
    /\ rss_content = None
    /\ jina_content = None
    /\ attempt = 0
    /\ calls = <<>>
    /\ responses = <<>>
    /\ ret = None
    /\ method = ""
    /\ raised = FALSE
    /\ browser_ret = None

Workers == {1, 2}

InitDigest ==
    /\ d_pc = "idle"
    /\ sections = <<>>
    /\ sec_i = 0
    /\ source_urls = <<>>
    /\ url_i = 0
    /\ sources_content = <<>>
    /\ events = <<>>
    /\ prompt_inputs = <<>>
    /\ sessions = <<>>
    /\ browser_session = 0
    /\ sent = FALSE
    /\ d_result = "None"
    /\ run_error = ""
    /\ browser_calls = 0
    /\ b_pc = [w \in Workers |-> "idle"]
    /\ procs = {}
    /\ driver = [w \in Workers |-> "none"]
    /\ b_result = [w \in Workers |-> ""]
    /\ foreign_kills = {}
    /\ attempts = [w \in Workers |-> <<>>]

InitText ==
    /\ doc = None
    /\ verdict = ""
    /\ path = ""
    /\ page = None
    /\ extracted = None
    /\ prev_doc = None
    /\ prev_verdict = ""

InitFeed ==
    /\ f_pc = "idle"
    /\ declared = <<>>
    /\ link_tag_feeds = <<>>
    /\ seen = {}
    /\ link_i = 0
    /\ path_i = 0
    /\ consecutive_misses = 0
    /\ requests = <<>>
    /\ feed = None
    /\ result = None
    /\ f_ret = None

InitExtract ==
    /\ x_pc = "idle"
    /\ html = None
    /\ main_content = None
    /\ x_text = None

InitCleanup ==
    /\ c_pc = "idle"
    /\ items = {}
    /\ options = None
    /\ section_counts = {}
    /\ protected_ids = {}
    /\ deleted = {}
    /\ delete_count = 0

InitItems ==
    /\ n_pc = "idle"
    /\ run = 0
    /\ n_sec = 0
    /\ news_table = <<>>
    /\ recent_news_items = <<>>
    /\ news_items = <<>>
    /\ store_i = 0
    /\ section_result = [sec |-> 0, items |-> <<>>, error |-> FALSE]
    /\ sections_data = <<>>
    /\ emails = <<>>
    /\ n_result = <<>>

InitSchedule ==
    /\ s_pc = "setup"
    /\ time_slots = {}
    /\ due = 0
    /\ executions = 0
    /\ enqueued = <<>>

Users == {1, 2}

InitOrder ==
    /\ r_pc = "setup"
    /\ news_sections = <<>>
    /\ before = <<>>
    /\ request = [user |-> 0, order |-> <<>>]
    /\ status = 0

InitWeb ==
    /\ registered = [u \in Users |-> FALSE]
    /\ email_verified = [u \in Users |-> FALSE]
    /\ codes = [u \in Users |-> 0]
    /\ owned = [u \in Users |-> <<>>]
    /\ has_slots = {}
    /\ task_queue = <<>>
    /\ last_run = None

Init ==
    /\ InitFetch /\ InitDigest /\ InitText /\ InitFeed /\ InitExtract
    /\ InitCleanup /\ InitItems /\ InitSchedule /\ InitWeb /\ InitOrder

\* fetch_url_content(url, use_browser, use_jina) is entered
Call ==
    /\ pc = "idle"
    /\ UNCHANGED <<dvars, bvars, tvars, fvars, xvars, cvars, ovars>>
    /\ UNCHANGED browser_ret
    /\ \E u \in SampleUrls, ub \in {"None", "True", "False"}, uj \in BOOLEAN :
        /\ url' = u
        /\ use_browser' = ub
        /\ use_jina' = uj
    /\ pc' = "feed"
    /\ UNCHANGED <<rss_content, jina_content, attempt, calls, responses,
                   ret, method, raised>>

Return(value, by) ==
    /\ pc' = "done"
    /\ ret' = value
    /\ method' = by

\* lines 861-864, 879, 966-969, 976 and the except clauses (988-1020): the
\* value of the browser fetch is the operand of the return statement
ReturnedFromBrowser_ifSuitable(content) ==
    IF is_content_suitable_for_llm(content) THEN content ELSE None

ReturnedFromBrowser(content) == content

Propagate ==
    /\ pc' = "done"
    /\ raised' = TRUE
    /\ UNCHANGED <<ret, method>>

\* lines 816-829: feed discovery, any exception swallowed
FeedDiscovery ==
    /\ pc = "feed"
    /\ UNCHANGED <<dvars, bvars, tvars, fvars, xvars, cvars, ovars>>
    /\ UNCHANGED browser_ret
    /\ calls' = Append(calls, "feed")
    /\ \E found \in SampleTexts \cup {None}, throws \in BOOLEAN :
        LET content == IF throws THEN None ELSE fetch_rss_feed(found) IN
        /\ rss_content' = content
        /\ IF Accepts(content)
           THEN Return(content, "feed")
           ELSE pc' = "proxy" /\ UNCHANGED <<ret, method>>
    /\ UNCHANGED <<url, use_browser, use_jina, jina_content, attempt,
                   responses, raised>>

\* continuation that takes the browser branch unless use_browser is False
AfterProxy_unlessForbidden ==
    IF is_problematic(Domain(url)) THEN "problematic"
    ELSE IF use_browser # "False" THEN "forced"
    ELSE IF HomepageDiffers(url) THEN "home" ELSE "get"

\* continuation that ignores use_browser
AfterProxy_neverForced ==
    IF is_problematic(Domain(url)) THEN "problematic"
    ELSE IF HomepageDiffers(url) THEN "home" ELSE "get"

\* where the call continues after the reader-proxy stage (lines 856-931)
AfterProxy ==
    IF is_problematic(Domain(url)) THEN "problematic"
    ELSE IF use_browser = "True" THEN "forced"
    ELSE IF HomepageDiffers(url) THEN "home" ELSE "get"

\* lines 831-838: the reader proxy is disabled or the domain is blocklisted
SkipReaderProxy ==
    /\ pc = "proxy"
    /\ UNCHANGED <<dvars, bvars, tvars, fvars, xvars, cvars, ovars>>
    /\ UNCHANGED browser_ret
    /\ ~(use_jina /\ ~jina_blocked(Domain(url)))
    /\ pc' = AfterProxy
    /\ UNCHANGED <<url, use_browser, use_jina, rss_content, jina_content,
                   attempt, calls, responses, ret, method, raised>>

\* lines 838-854: reader proxy
ReaderProxy ==
    /\ pc = "proxy"
    /\ UNCHANGED <<dvars, bvars, tvars, fvars, xvars, cvars, ovars>>
    /\ UNCHANGED browser_ret
    /\ use_jina /\ ~jina_blocked(Domain(url))
    /\ calls' = Append(calls, "jina")
    /\ \E resp \in SampleTexts \cup {None} :
        LET content == fetch_with_jina(resp) IN
        /\ jina_content' = content
        /\ IF Accepts(content)
           THEN Return(content, "jina")
           ELSE pc' = AfterProxy /\ UNCHANGED <<ret, method>>
    /\ UNCHANGED <<url, use_browser, use_jina, rss_content, attempt,
                   responses, raised>>

\* lines 859-864: known problematic site, browser outside any try
ProblematicBrowser ==
    /\ pc = "problematic"
    /\ UNCHANGED <<dvars, bvars, tvars, fvars, xvars, cvars, ovars>>
    /\ calls' = Append(calls, "browser")
    /\ \E content \in SampleTexts, throws \in BOOLEAN :
        IF throws THEN Propagate /\ UNCHANGED browser_ret
        ELSE /\ Return(ReturnedFromBrowser(_fetch_with_browser(content)), "browser")
             /\ browser_ret' = _fetch_with_browser(content)
             /\ UNCHANGED raised
    /\ UNCHANGED <<url, use_browser, use_jina, rss_content, jina_content,
                   attempt, responses>>

\* lines 876-883: use_browser is True, failure falls back to requests
ForcedBrowser ==
    /\ pc = "forced"
    /\ UNCHANGED <<dvars, bvars, tvars, fvars, xvars, cvars, ovars>>
    /\ calls' = Append(calls, "browser")
    /\ \E content \in SampleTexts, throws \in BOOLEAN :
        IF throws
        THEN /\ pc' = IF HomepageDiffers(url) THEN "home" ELSE "get"
             /\ UNCHANGED <<ret, method, browser_ret>>
        ELSE /\ Return(ReturnedFromBrowser(_fetch_with_browser(content)), "browser")
             /\ browser_ret' = _fetch_with_browser(content)
    /\ UNCHANGED <<url, use_browser, use_jina, rss_content, jina_content,
                   attempt, responses, raised>>

\* lines 940-951: first attempt visits the homepage, failure ignored
HomepageVisit ==
    /\ pc = "home"
    /\ UNCHANGED <<dvars, bvars, tvars, fvars, xvars, cvars, ovars>>
    /\ UNCHANGED browser_ret
    /\ calls' = Append(calls, "home")
    /\ pc' = "get"
    /\ UNCHANGED <<url, use_browser, use_jina, rss_content, jina_content,
                   attempt, responses, ret, method, raised>>

\* retry decision that allows one attempt too many
RetryOrEscalate_offByOne ==
    IF attempt < max_retries
    THEN pc' = "get" /\ attempt' = attempt + 1
    ELSE pc' = "browser_handler" /\ UNCHANGED attempt

\* retry decision that never gives up
RetryOrEscalate_always ==
    pc' = "get" /\ UNCHANGED attempt

\* the retry decision shared by the except clauses (lines 989-1020)
RetryOrEscalate ==
    IF attempt < max_retries - 1
    THEN pc' = "get" /\ attempt' = attempt + 1
    ELSE pc' = "browser_handler" /\ UNCHANGED attempt

\* lines 953-1020: one request of the target URL and what follows from it
DirectGet ==
    /\ pc = "get"
    /\ UNCHANGED <<dvars, bvars, tvars, fvars, xvars, cvars, ovars>>
    /\ UNCHANGED browser_ret
    /\ calls' = Append(calls, "http")
    /\ \E response \in Responses :
        /\ responses' = Append(responses, response)
        /\ IF response.exc # ""
           THEN RetryOrEscalate /\ UNCHANGED <<ret, method>>
           ELSE IF response.status >= 400
           THEN /\ IF response.status \in {403, 429}
                   THEN pc' = "browser_handler" /\ UNCHANGED attempt
                   ELSE RetryOrEscalate
                /\ UNCHANGED <<ret, method>>
           ELSE IF response.len = 0 \/ response.len < MinResponseLen
           THEN pc' = "browser_try" /\ UNCHANGED <<attempt, ret, method>>
           ELSE IF response.captcha \/ response.cloudflare
           THEN pc' = "browser_try" /\ UNCHANGED <<attempt, ret, method>>
           ELSE /\ \E text \in process_html_content(response) : Return(text, "http")
                /\ UNCHANGED attempt
    /\ UNCHANGED <<url, use_browser, use_jina, rss_content, jina_content, raised>>

\* lines 966, 976: browser called inside the try block of the loop
BrowserInTry ==
    /\ pc = "browser_try"
    /\ UNCHANGED <<dvars, bvars, tvars, fvars, xvars, cvars, ovars>>
    /\ calls' = Append(calls, "browser")
    /\ \E content \in SampleTexts, throws \in BOOLEAN :
        IF throws
        THEN RetryOrEscalate /\ UNCHANGED <<ret, method, browser_ret>>
        ELSE /\ Return(ReturnedFromBrowser(_fetch_with_browser(content)), "browser")
             /\ browser_ret' = _fetch_with_browser(content)
             /\ UNCHANGED attempt
    /\ UNCHANGED <<url, use_browser, use_jina, rss_content, jina_content,
                   responses, raised>>

\* lines 988, 996, 1004, 1012, 1020: browser called inside an except clause
BrowserInHandler ==
    /\ pc = "browser_handler"
    /\ UNCHANGED <<dvars, bvars, tvars, fvars, xvars, cvars, ovars>>
    /\ calls' = Append(calls, "browser")
    /\ \E content \in SampleTexts, throws \in BOOLEAN :
        IF throws THEN Propagate /\ UNCHANGED browser_ret
        ELSE /\ Return(ReturnedFromBrowser(_fetch_with_browser(content)), "browser")
             /\ browser_ret' = _fetch_with_browser(content)
             /\ UNCHANGED raised
    /\ UNCHANGED <<url, use_browser, use_jina, rss_content, jina_content,
                   attempt, responses>>

Next ==
    \/ Call
    \/ FeedDiscovery
    \/ SkipReaderProxy
    \/ ReaderProxy
    \/ ProblematicBrowser
    \/ ForcedBrowser
    \/ HomepageVisit
    \/ DirectGet
    \/ BrowserInTry
    \/ BrowserInHandler

Spec == Init /\ [][Next]_vars

TypeOK ==
    /\ pc \in {"idle", "feed", "proxy", "problematic", "forced", "home", "get",
               "browser_try", "browser_handler", "done"}
    /\ attempt \in 0..(max_retries - 1)
    /\ ret \in SampleTexts \cup {None}
    /\ browser_ret \in SampleTexts \cup {None}

----------------------------------------------------------------------------
(* Properties of fetch_url_content *)

Range(seq) == { seq[i] : i \in DOMAIN seq }

\* positions of the invocations of strategy s
Idx(s) == { i \in DOMAIN calls : calls[i] = s }

OnBlocklist(domain) == \E b \in JINA_BLOCKLIST : Contains(domain, b)

OnProblematicList(domain) == \E site \in problematic_sites : Contains(domain, site)

\* C1: with use_browser unset and a domain that is not known-problematic,
\* every browser invocation is preceded by a direct-HTTP request of the URL
C1_DirectHttpBeforeBrowser ==
    (use_browser = "None" /\ ~OnProblematicList(url.host))
        => \A i \in Idx("browser") : \E j \in Idx("http") : j < i

\* no feed, reader proxy answered with unsuitable content, then direct HTTP
\* and then the browser ran
C1_Witness ==
    /\ use_browser = "None" /\ ~OnProblematicList(url.host)
    /\ rss_content = None
    /\ jina_content # None /\ jina_content.len > MinContentLen
    /\ ~is_content_suitable_for_llm(jina_content)
    /\ \E i \in Idx("browser") : \E j \in Idx("http") : j < i

\* C2: the cascade is monotonic: the browser is invoked at most once and no
\* strategy is invoked after the browser has been invoked
C2_Monotonic == \A i \in Idx("browser") : i = Len(calls)

\* C3: fetch_url_content never propagates an exception to its caller
C3_NeverPropagates == ~raised

\* C4 as stated: with use_browser=True the first strategy invoked is the
\* browser
C4_BrowserFirst ==
    (use_browser = "True" /\ calls # <<>>) => calls[1] = "browser"

\* C4 as amended: with use_browser=True feed discovery is the first strategy,
\* only feed discovery and the reader proxy precede the first browser
\* invocation, and every direct-HTTP request (homepage or target URL) is
\* preceded by a browser invocation
C4_BrowserBeforeDirectHttp ==
    use_browser = "True" =>
        /\ calls # <<>> => calls[1] = "feed"
        /\ \A i \in Idx("home") \cup Idx("http") :
              \E j \in Idx("browser") : j < i
        /\ \A i \in Idx("browser") :
              (\A k \in Idx("browser") : i <= k)
                  => \A j \in 1..(i - 1) : calls[j] \in {"feed", "jina"}

\* a forced-browser call that ended with the browser's text, no direct HTTP
C4_Witness ==
    /\ use_browser = "True" /\ pc = "done" /\ method = "browser"
    /\ calls = <<"feed", "jina", "browser">>

\* C5: text returned by the direct-HTTP strategy has passed the classifier
C5_DirectHttpResultSuitable ==
    (pc = "done" /\ method = "http") => is_content_suitable_for_llm(ret)

\* C6: a feed result that passes the classifier is returned as is, and no
\* other strategy is invoked in that call
C6_SuitableFeedReturned ==
    (rss_content # None /\ is_content_suitable_for_llm(rss_content))
        => /\ pc = "done" /\ ~raised
           /\ ret = rss_content /\ method = "feed"
           /\ calls = <<"feed">>

C6_Witness ==
    /\ pc = "done" /\ method = "feed"
    /\ rss_content # None /\ is_content_suitable_for_llm(rss_content)

\* C7: with use_browser=False the browser strategy is never invoked
C7_BrowserForbidden == use_browser = "False" => "browser" \notin Range(calls)

\* C8 as stated: reader-proxy content that the classifier accepts is
\* returned, whatever its length, and neither direct HTTP nor the browser runs
C8_SuitableProxyContentReturned ==
    (jina_content # None /\ is_content_suitable_for_llm(jina_content))
        => /\ pc = "done" /\ ret = jina_content /\ method = "jina"
           /\ Range(calls) \cap {"home", "http", "browser"} = {}

\* C8 as amended: reader-proxy content longer than 500 characters that the
\* classifier accepts is returned, and neither direct HTTP nor the browser
\* runs
C8_LongSuitableProxyContentReturned ==
    (/\ jina_content # None
     /\ jina_content.len > MinContentLen
     /\ is_content_suitable_for_llm(jina_content))
        => /\ pc = "done" /\ ~raised
           /\ ret = jina_content /\ method = "jina"
           /\ Range(calls) \cap {"home", "http", "browser"} = {}

C8_Witness ==
    /\ pc = "done" /\ method = "jina" /\ "jina" \in Range(calls)
    /\ jina_content.len > MinContentLen
    /\ is_content_suitable_for_llm(jina_content)

\* C9: the reader proxy is not invoked when use_jina is false or the domain
\* contains an entry of JINA_BLOCKLIST
C9_ProxySkipped ==
    "jina" \in Range(calls) => (use_jina /\ ~OnBlocklist(url.host))

\* a call for a blocklisted domain with use_jina set that went past the
\* reader-proxy stage
C9_Witness ==
    /\ use_jina /\ OnBlocklist(url.host)
    /\ pc = "done" /\ Len(calls) >= 2 /\ calls[1] = "feed"

\* C10: for a known-problematic domain no direct-HTTP request is made; the
\* browser is invoked once, as the last strategy, after feed discovery and
\* the reader proxy gave no suitable result
C10_ProblematicSkipsDirectHttp ==
    OnProblematicList(url.host) =>
        /\ Range(calls) \cap {"home", "http"} = {}
        /\ \A i \in Idx("browser") : i = Len(calls)
        /\ (pc = "done" /\ method \notin {"feed", "jina"})
              => calls[Len(calls)] = "browser"

C10_Witness ==
    /\ OnProblematicList(url.host) /\ pc = "done"
    /\ ~Accepts(rss_content) /\ ~Accepts(jina_content)
    /\ calls = <<"feed", "jina", "browser">>

\* position in calls of the k-th request of the target URL
NthHttp(k) ==
    CHOOSE i \in Idx("http") : Cardinality({ j \in Idx("http") : j <= i }) = k

\* HTTP 403/429, an anti-bot marker in the body, or a body under 100 characters
BlockingSignal(r) ==
    /\ r.exc = ""
    /\ \/ r.status \in {403, 429}
       \/ r.status = 200 /\ (r.captcha \/ r.cloudflare \/ r.len < MinResponseLen)

\* connection error, timeout, or an HTTP error other than 403/429
TransientFailure(r) ==
    \/ r.exc # ""
    \/ r.status >= 400 /\ r.status \notin {403, 429}

\* C11: after a direct-HTTP attempt that met a blocking signal no further
\* direct-HTTP attempt is made, and the next strategy invoked is the browser
C11_ImmediateEscalation ==
    \A k \in DOMAIN responses :
        BlockingSignal(responses[k]) =>
            LET i == NthHttp(k) IN
            /\ \A j \in Idx("http") : j <= i
            /\ i < Len(calls) => calls[i + 1] = "browser"

\* C12: the target URL is requested at most max_retries times per call; a
\* transient failure of an attempt that is not the last is followed by a new
\* request, and only a failure of the last attempt is followed by the browser
C12_BoundedRetry ==
    /\ Cardinality(Idx("http")) <= max_retries
    /\ \A k \in DOMAIN responses :
          TransientFailure(responses[k]) =>
              LET i == NthHttp(k) IN
              i < Len(calls) =>
                  calls[i + 1] = (IF k < max_retries THEN "http" ELSE "browser")

\* two transient failures in a row, then the browser
C12_Witness ==
    /\ Len(responses) = max_retries
    /\ \A k \in DOMAIN responses : TransientFailure(responses[k])
    /\ Len(calls) >= 3
    /\ SubSeq(calls, Len(calls) - 2, Len(calls)) = <<"http", "http", "browser">>

----------------------------------------------------------------------------
(* The digest run: send_news_update (tasks.py:192-594) *)

\* largest number of news sections of the user
MaxSections == 2
\* largest number of browser fetches modelled within one fetch_url_content
MaxBrowserCalls == 1

\* tasks.py:234  len(source_urls) > 7
SourceLimit == 7

\* one entry of NewsSection.sources: scheme prefix ("" when absent) and the rest
Src(s, n) == [scheme |-> s, rest |-> n]

OneSource == << Src("", 1) >>

ThreeSources == << Src("https:", 2), Src("", 1), Src("http:", 3) >>

ManySources == [i \in 1..(SourceLimit + 1) |-> Src("", i)]

SampleSectionLists ==
    { [i \in 1..n |-> OneSource] : n \in 0..MaxSections }
    \cup { << ThreeSources >>, << OneSource, ThreeSources >>, << ManySources >> }

\* exception classes that can leave fetch_url_content
FetchErrors == {"Exception", "ImportError", "TypeError"}

\* issubclass(e, c) for the classes above
Subclass(e, c) == c = "Exception" \/ e = c

\* source order reversed
get_sources_list_reversed(raw) ==
    [i \in 1..Len(raw) |->
        LET r == raw[Len(raw) + 1 - i] IN
        IF r.scheme = "" THEN [r EXCEPT !.scheme = "https:"] ELSE r]

\* NewsSection.get_sources_list: the entries in order, https:// prefixed
\* when no scheme is present
get_sources_list(raw) ==
    [i \in 1..Len(raw) |->
        IF raw[i].scheme = "" THEN [raw[i] EXCEPT !.scheme = "https:"]
        ELSE raw[i]]

\* source_urls[:7]
LimitSources(urls) ==
    IF Len(urls) > SourceLimit THEN SubSeq(urls, 1, SourceLimit) ELSE urls

\* handler that only catches requests' exceptions
CaughtPerSource_requestsOnly(e) == Subclass(e, "RequestException")

\* except Exception around one fetch (tasks.py:245)
CaughtPerSource(e) == Subclass(e, "Exception")

\* a session other than the one bound by the with statement
SessionArg_other == browser_session + 1

\* browser_session=browser_session (tasks.py:241)
SessionArg == browser_session

\* f"Content from {url}:\n{raw_content}", body "text" or "None"
ContentEntry(u, body) == [url |-> u, body |-> body]

\* f"Error fetching content from {url}"
ErrorEntry(u) == [url |-> u, body |-> "error"]

\* BrowserSession.__exit__: the session is torn down
SessionExit(ss, id) == [ss EXCEPT ![id] = "closed"]

\* an exception leaves the with block: the session is released, the outer
\* handler logs and returns False (tasks.py:226, 591-593)
Abort_returnsNone(why) ==
    /\ sessions' = SessionExit(sessions, browser_session)
    /\ d_pc' = "done"
    /\ d_result' = "None"
    /\ run_error' = why

Abort(why) ==
    /\ sessions' = SessionExit(sessions, browser_session)
    /\ d_pc' = "done"
    /\ d_result' = "False"
    /\ run_error' = why

\* lines 203-209: the sections are loaded, no section ends the run
StartRun ==
    /\ d_pc = "idle"
    /\ b_pc[1] = "idle"
    /\ \E sl \in SampleSectionLists :
        /\ sections' = sl
        /\ d_pc' = IF sl = <<>> THEN "done" ELSE "acquire"
    /\ UNCHANGED <<sec_i, source_urls, url_i, sources_content, events,
                   prompt_inputs, sessions, browser_session, sent, d_result,
                   run_error, browser_calls>>
    /\ UNCHANGED <<vars, bvars, tvars, fvars, xvars, cvars, ovars>>

\* line 226: with BrowserSession() as browser_session
AcquireSession ==
    /\ d_pc = "acquire"
    /\ sessions' = Append(sessions, "open")
    /\ browser_session' = Len(sessions) + 1
    /\ sec_i' = 1
    /\ d_pc' = "section"
    /\ UNCHANGED <<sections, source_urls, url_i, sources_content, events,
                   prompt_inputs, sent, d_result, run_error, browser_calls>>
    /\ UNCHANGED <<vars, bvars, tvars, fvars, xvars, cvars, ovars>>

\* lines 227-236: next section, its source list limited to 7
BeginSection ==
    /\ d_pc = "section"
    /\ source_urls' = LimitSources(get_sources_list(sections[sec_i]))
    /\ url_i' = 1
    /\ sources_content' = <<>>
    /\ d_pc' = "fetch_loop"
    /\ UNCHANGED <<sections, sec_i, events, prompt_inputs, sessions,
                   browser_session, sent, d_result, run_error, browser_calls>>
    /\ UNCHANGED <<vars, bvars, tvars, fvars, xvars, cvars, ovars>>

\* lines 238-241: fetch_url_content is called for the next source URL
FetchStart ==
    /\ d_pc = "fetch_loop"
    /\ url_i <= Len(source_urls)
    /\ events' = Append(events, [kind |-> "start", sec |-> sec_i,
                                 url |-> source_urls[url_i],
                                 session |-> SessionArg])
    /\ browser_calls' = 0
    /\ d_pc' = "fetching"
    /\ UNCHANGED <<sections, sec_i, source_urls, url_i, sources_content,
                   prompt_inputs, sessions, browser_session, sent, d_result,
                   run_error>>
    /\ UNCHANGED <<vars, bvars, tvars, fvars, xvars, cvars, ovars>>

\* lines 241-247: fetch_url_content returns a text, returns None or raises
FetchEnd ==
    /\ d_pc = "fetching"
    /\ b_pc[1] = "idle"
    /\ events' = Append(events, [kind |-> "end", sec |-> sec_i,
                                 url |-> source_urls[url_i],
                                 session |-> SessionArg])
    /\ \/ \E body \in {"text", "None"} :
            /\ sources_content' =
                  Append(sources_content, ContentEntry(source_urls[url_i], body))
            /\ url_i' = url_i + 1
            /\ d_pc' = "fetch_loop"
            /\ UNCHANGED <<sessions, d_result, run_error>>
       \/ \E e \in FetchErrors :
            IF CaughtPerSource(e)
            THEN /\ sources_content' =
                       Append(sources_content, ErrorEntry(source_urls[url_i]))
                 /\ url_i' = url_i + 1
                 /\ d_pc' = "fetch_loop"
                 /\ UNCHANGED <<sessions, d_result, run_error>>
            ELSE /\ Abort("fetch")
                 /\ UNCHANGED <<sources_content, url_i>>
    /\ UNCHANGED <<sections, sec_i, source_urls, prompt_inputs,
                   browser_session, sent, browser_calls>>
    /\ UNCHANGED <<vars, bvars, tvars, fvars, xvars, cvars, ovars>>

\* lines 249-546: the recent items are read and the section is summarized;
\* an exception of the summarization is turned into the section's error
\* (544-546), an exception of the database query (250-261) leaves the with
\* block
Summarize ==
    /\ d_pc = "fetch_loop"
    /\ url_i > Len(source_urls)
    /\ \/ /\ Abort("db")
          /\ UNCHANGED <<prompt_inputs, sec_i>>
       \/ /\ prompt_inputs' = Append(prompt_inputs, sources_content)
          /\ IF sec_i < Len(sections)
             THEN d_pc' = "section" /\ sec_i' = sec_i + 1
             ELSE d_pc' = "release" /\ UNCHANGED sec_i
          /\ UNCHANGED <<sessions, d_result, run_error>>
    /\ UNCHANGED <<sections, source_urls, url_i, sources_content, events,
                   browser_session, sent, browser_calls>>
    /\ UNCHANGED <<vars, bvars, tvars, fvars, xvars, cvars, ovars>>

\* the with block ends normally
ReleaseSession ==
    /\ d_pc = "release"
    /\ sessions' = SessionExit(sessions, browser_session)
    /\ d_pc' = "send"
    /\ UNCHANGED <<sections, sec_i, source_urls, url_i, sources_content,
                   events, prompt_inputs, browser_session, sent, d_result,
                   run_error, browser_calls>>
    /\ UNCHANGED <<vars, bvars, tvars, fvars, xvars, cvars, ovars>>

\* lines 548-593: the email is rendered and sent, or that raises
SendEmail ==
    /\ d_pc = "send"
    /\ d_pc' = "done"
    /\ \/ sent' = TRUE /\ d_result' = "True" /\ UNCHANGED run_error
       \/ d_result' = "False" /\ run_error' = "email" /\ UNCHANGED sent
    /\ UNCHANGED <<sections, sec_i, source_urls, url_i, sources_content,
                   events, prompt_inputs, sessions, browser_session,
                   browser_calls>>
    /\ UNCHANGED <<vars, bvars, tvars, fvars, xvars, cvars, ovars>>

----------------------------------------------------------------------------
(* _fetch_with_browser (browser_fetch.py:8-454), run by worker w.  A live   *)
(* browser process is identified by the worker that launched it.           *)

\* pkill -f chrome / taskkill chrome.exe: every browser process of the host
pkill_chrome(ps) == {}

\* the processes of other workers among those killed by worker w
Foreign(w, killed) == { <<w, p>> : p \in killed \ {w} }

\* clean-up that runs only when the function returns normally
QuitsDriver_onReturnOnly(exit) == exit = "return"

\* the finally clause (line 391) runs on return and on exception
QuitsDriver(exit) == exit \in {"return", "raise"}

\* the backend tried after every backend but Selenium
NextBackend_skipSelenium(backend, outcome) ==
    IF outcome = "failed" \/ outcome = "no_driver" THEN "fallback" ELSE "idle"

\* lines 182-185 and 205-209: where a backend that did not return hands over.
\* A failed Playwright leads to Selenium, a driver that could not be created
\* to the plain request; every other outcome leaves the function.
NextBackend(backend, outcome) ==
    IF backend = "playwright" /\ outcome = "failed" THEN "selenium"
    ELSE IF backend = "selenium" /\ outcome = "no_driver" THEN "fallback"
    ELSE "idle"

\* attempts with one more entry for worker w
Tried(w, backend, outcome) ==
    [attempts EXCEPT ![w] = Append(@, <<backend, outcome>>)]

\* lines 10-22: the function is entered; ImportError when selenium is missing.
\* Worker 1 enters it from fetch_url_content during a digest run, or directly
\* when no run is in progress; worker 2 enters it at any time.
B_Start(w) ==
    /\ b_pc[w] = "idle"
    /\ (w = 1 /\ d_pc # "idle") =>
          (d_pc = "fetching" /\ browser_calls < MaxBrowserCalls)
    /\ browser_calls' =
          IF w = 1 /\ d_pc = "fetching" THEN browser_calls + 1 ELSE browser_calls
    /\ driver' = [driver EXCEPT ![w] = "none"]
    /\ \E imported \in BOOLEAN :
        /\ b_pc' = [b_pc EXCEPT ![w] = IF imported THEN "kill_existing" ELSE "idle"]
        /\ b_result' = [b_result EXCEPT ![w] = IF imported THEN "" ELSE "raised"]
    /\ attempts' = [attempts EXCEPT ![w] = <<>>]
    /\ UNCHANGED <<procs, foreign_kills>>
    /\ UNCHANGED <<d_pc, sections, sec_i, source_urls, url_i, sources_content,
                   events, prompt_inputs, sessions, browser_session, sent,
                   d_result, run_error>>
    /\ UNCHANGED <<vars, tvars, fvars, xvars, cvars, ovars>>

\* lines 39-64: every existing Chrome/Chromium process is killed
B_KillExisting(w) ==
    /\ b_pc[w] = "kill_existing"
    /\ procs' = pkill_chrome(procs)
    /\ foreign_kills' = foreign_kills \cup Foreign(w, procs \ pkill_chrome(procs))
    /\ b_pc' = [b_pc EXCEPT ![w] = "playwright"]
    /\ UNCHANGED <<driver, b_result, attempts, dvars, vars, tvars, fvars, xvars, cvars, ovars>>

\* lines 147-154: Playwright launches Chromium, or is missing or fails
B_PlaywrightLaunch(w) ==
    /\ b_pc[w] = "playwright"
    /\ \/ /\ procs' = procs \cup {w}
          /\ b_pc' = [b_pc EXCEPT ![w] = "pw_page"]
          /\ UNCHANGED attempts
       \/ /\ b_pc' = [b_pc EXCEPT ![w] = NextBackend("playwright", "failed")]
          /\ attempts' = Tried(w, "playwright", "failed")
          /\ UNCHANGED procs
    /\ UNCHANGED <<driver, b_result, foreign_kills, dvars, vars, tvars, fvars, xvars, cvars, ovars>>

\* lines 155-185: the page is loaded and its text returned, or an exception
\* ends the Playwright context and Selenium is tried
B_PlaywrightPage(w) ==
    /\ b_pc[w] = "pw_page"
    /\ procs' = procs \ {w}
    /\ \/ /\ w \in procs
          /\ b_pc' = [b_pc EXCEPT ![w] = NextBackend("playwright", "text")]
          /\ b_result' = [b_result EXCEPT ![w] = "text"]
          /\ attempts' = Tried(w, "playwright", "text")
       \/ /\ b_pc' = [b_pc EXCEPT ![w] = NextBackend("playwright", "failed")]
          /\ attempts' = Tried(w, "playwright", "failed")
          /\ UNCHANGED b_result
    /\ UNCHANGED <<driver, foreign_kills, dvars, vars, tvars, fvars, xvars, cvars, ovars>>

\* lines 187-211: webdriver.Chrome(...) creates the driver, or raises
B_SeleniumInit(w) ==
    /\ b_pc[w] = "selenium"
    /\ \/ /\ procs' = procs \cup {w}
          /\ driver' = [driver EXCEPT ![w] = "open"]
          /\ b_pc' = [b_pc EXCEPT ![w] = "driving"]
          /\ UNCHANGED attempts
       \/ /\ b_pc' = [b_pc EXCEPT ![w] = NextBackend("selenium", "no_driver")]
          /\ attempts' = Tried(w, "selenium", "no_driver")
          /\ UNCHANGED <<procs, driver>>
    /\ UNCHANGED <<b_result, foreign_kills, dvars, vars, tvars, fvars, xvars, cvars, ovars>>

\* lines 213-243: plain request without a browser; returns the text of the
\* response parsed without rendering, or raises
B_Fallback(w) ==
    /\ b_pc[w] = "fallback"
    /\ b_pc' = [b_pc EXCEPT ![w] = "idle"]
    /\ \E exit \in {"plain_text", "raised"} :
        /\ b_result' = [b_result EXCEPT ![w] = exit]
        /\ attempts' = Tried(w, "requests",
                             IF exit = "raised" THEN "failed" ELSE "text")
    /\ UNCHANGED <<procs, driver, foreign_kills, dvars, vars, tvars, fvars, xvars, cvars, ovars>>

\* lines 245-389: navigation and extraction; returns the text or raises
B_Drive(w) ==
    /\ b_pc[w] = "driving"
    /\ \E exit \in {"return", "raise"} :
        /\ exit = "return" => w \in procs
        /\ b_pc' = [b_pc EXCEPT ![w] = IF QuitsDriver(exit) THEN "finally" ELSE "idle"]
        /\ b_result' = [b_result EXCEPT ![w] = IF exit = "return" THEN "text" ELSE "raised"]
        /\ attempts' = Tried(w, "selenium",
                             IF exit = "return" THEN "text" ELSE "failed")
    /\ UNCHANGED <<procs, driver, foreign_kills, dvars, vars, tvars, fvars, xvars, cvars, ovars>>

\* lines 391-454: driver.quit(); when it raises or exceeds its timeout every
\* Chrome/Chromium process is killed
B_Finally(w) ==
    /\ b_pc[w] = "finally"
    /\ driver' = [driver EXCEPT ![w] = "quit"]
    /\ \E quit \in {"ok", "raises", "hangs"} :
        IF quit = "ok"
        THEN procs' = procs \ {w} /\ UNCHANGED foreign_kills
        ELSE /\ procs' = pkill_chrome(procs)
             /\ foreign_kills' =
                   foreign_kills \cup Foreign(w, procs \ pkill_chrome(procs))
    /\ b_pc' = [b_pc EXCEPT ![w] = "idle"]
    /\ UNCHANGED <<b_result, attempts, dvars, vars, tvars, fvars, xvars, cvars, ovars>>

NextDigest ==
    \/ StartRun
    \/ AcquireSession
    \/ BeginSection
    \/ FetchStart
    \/ FetchEnd
    \/ Summarize
    \/ ReleaseSession
    \/ SendEmail
    \/ B_Start(1)
    \/ B_KillExisting(1)
    \/ B_PlaywrightLaunch(1)
    \/ B_PlaywrightPage(1)
    \/ B_SeleniumInit(1)
    \/ B_Fallback(1)
    \/ B_Drive(1)
    \/ B_Finally(1)

\* a digest run together with the browser fetches it makes
SpecDigest == Init /\ [][NextDigest]_<<vars, dvars, bvars, tvars, fvars, xvars, cvars, ovars>>

NextBrowser ==
    \/ \E w \in Workers : B_Start(w)
    \/ \E w \in Workers : B_KillExisting(w)
    \/ \E w \in Workers : B_PlaywrightLaunch(w)
    \/ \E w \in Workers : B_PlaywrightPage(w)
    \/ \E w \in Workers : B_SeleniumInit(w)
    \/ \E w \in Workers : B_Fallback(w)
    \/ \E w \in Workers : B_Drive(w)
    \/ \E w \in Workers : B_Finally(w)

\* browser fetches of two workers running concurrently on one host
SpecBrowser == Init /\ [][NextBrowser]_<<vars, dvars, bvars, tvars, fvars, xvars, cvars, ovars>>

TypeOKDigest ==
    /\ d_pc \in {"idle", "acquire", "section", "fetch_loop", "fetching",
                 "release", "send", "done"}
    /\ procs \subseteq Workers
    /\ d_result \in {"None", "True", "False"}
    /\ Len(source_urls) <= SourceLimit

----------------------------------------------------------------------------
(* Properties of the digest run and of the browser fetches *)

\* a declared source with https:// put in front when it has no scheme
WithScheme(r) == IF r.scheme = "" THEN [scheme |-> "https:", rest |-> r.rest] ELSE r

\* the sources of section k in declared order, up to the per-section limit
Declared(k) ==
    [i \in 1..(IF Len(sections[k]) > SourceLimit THEN SourceLimit
               ELSE Len(sections[k])) |-> WithScheme(sections[k][i])]

\* the fetches started for section k, in order
StartsOf(k) ==
    LET IsStart(e) == e.kind = "start" /\ e.sec = k IN SelectSeq(events, IsStart)

\* C13: a fetch that raises or fails never aborts the section or the run, and
\* the summarization input of every section has one entry for each of its
\* source URLs (up to the limit)
C13_PartialFailureIsolation ==
    /\ run_error # "fetch"
    /\ d_pc \in {"fetch_loop", "fetching"} => Len(sources_content) = url_i - 1
    /\ \A k \in DOMAIN prompt_inputs :
          /\ Len(prompt_inputs[k]) = Len(Declared(k))
          /\ \A i \in DOMAIN prompt_inputs[k] :
                prompt_inputs[k][i].url = Declared(k)[i]

\* the first of three fetches raised, the second returned None, the third
\* returned a text, and the email was sent
C13_Witness ==
    /\ d_pc = "done" /\ d_result = "True"
    /\ \E k \in DOMAIN prompt_inputs :
          /\ Len(prompt_inputs[k]) = 3
          /\ prompt_inputs[k][1].body = "error"
          /\ prompt_inputs[k][2].body = "None"
          /\ prompt_inputs[k][3].body = "text"

C15_OwnProcessesOnly == foreign_kills = {}

\* C16: a run with sections acquires exactly one BrowserSession and passes
\* it to every fetch_url_content call; a run without sections acquires none
C16_SingleSession ==
    /\ Len(sessions) <= 1
    /\ sections = <<>> => sessions = <<>>
    /\ (sections # <<>> /\ d_pc \notin {"idle", "acquire"}) => Len(sessions) = 1
    /\ \A i \in DOMAIN events :
          events[i].session = 1 /\ sessions # <<>>

\* a finished run over two sections with at least two fetches
C16_Witness ==
    /\ d_pc = "done" /\ d_result = "True"
    /\ Len(sections) = 2 /\ Len(events) >= 4
    /\ events[1].sec = 1 /\ events[Len(events)].sec = 2

\* C17: fetches do not overlap (every start is directly followed by its
\* end), the sources of a section are fetched in declared order, and the
\* entries handed to summarization are in that order
C17_SequentialInOrder ==
    /\ \A i \in DOMAIN events :
          /\ events[i].kind = (IF i % 2 = 1 THEN "start" ELSE "end")
          /\ i % 2 = 0 => (/\ events[i].url = events[i - 1].url
                           /\ events[i].sec = events[i - 1].sec)
    /\ \A k \in DOMAIN sections :
          LET starts == StartsOf(k) IN
          /\ Len(starts) <= Len(Declared(k))
          /\ \A j \in DOMAIN starts : starts[j].url = Declared(k)[j]
    /\ \A k \in DOMAIN prompt_inputs :
          \A j \in DOMAIN prompt_inputs[k] :
              j <= Len(Declared(k)) => prompt_inputs[k][j].url = Declared(k)[j]

\* a section of three different sources was fetched and summarized
C17_Witness ==
    \E k \in DOMAIN prompt_inputs :
        /\ Len(StartsOf(k)) = 3
        /\ Len(prompt_inputs[k]) = 3
        /\ prompt_inputs[k][1].url # prompt_inputs[k][3].url

----------------------------------------------------------------------------
(* The texts read by is_content_suitable_for_llm (tasks.py:126-190) and    *)
(* capped by the extraction paths                                          *)

\* tasks.py:142-150
problematic_indicators ==
    { "<html", "<body", "<script", "<style",
      "captcha", "access denied", "403 forbidden", "404 not found",
      "page not available", "enable javascript", "browser not supported",
      "subscribe to continue", "subscription required", "sign in to continue" }

\* tasks.py:176
common_words ==
    { "the", "a", "an", "and", "or", "but", "in", "on", "at", "to", "of",
      "for", "with", "by" }

\* str.lower() on the phrases of the sample documents
Lower(phrase) ==
    CASE phrase = "CAPTCHA" -> "captcha"
      [] phrase = "Captcha" -> "captcha"
      [] phrase = "Access Denied" -> "access denied"
      [] phrase = "<HTML" -> "<html"
      [] phrase = "Enable JavaScript" -> "enable javascript"
      [] phrase = "Cloudflare" -> "cloudflare"
      [] phrase = "Checking your browser" -> "checking your browser"
      [] phrase = "Fed" -> "fed"
      [] OTHER -> phrase

\* the words whose number of occurrences a sample document states; every
\* other word of a document occurs fewer than 100 times
Vocabulary == { "and", "the", "web", "market" }

\* a document: its number of characters, the phrases found in it as they are
\* written (one entry per occurrence), the number of whitespace-separated
\* words of each of its lines (0 for a blank line), and the number of
\* occurrences of each word of the vocabulary in the lower-cased text
Document(chars, phrases, lines, dominant, count) ==
    [chars |-> chars, phrases |-> phrases, lines |-> lines,
     bag |-> [w \in Vocabulary |-> IF w = dominant THEN count ELSE 0]]

RECURSIVE SumSeq(_)
SumSeq(q) == IF q = <<>> THEN 0 ELSE Head(q) + SumSeq(Tail(q))

SampleLines ==
    { <<>>, <<12, 0, 12>>, <<11, 11, 0, 11>>, <<10, 10, 10, 10>>,
      <<30, 30, 39>>, <<30, 30, 40>>, <<30, 30, 41>>, <<400, 400, 210>>, <<400, 400, 400>> }

SamplePhrases ==
    { <<>>,
      <<"captcha", "captcha", "captcha", "captcha", "captcha">>,
      <<"captcha", "CAPTCHA", "Captcha", "<html", "<HTML", "Cloudflare">>,
      <<"captcha", "<html", "<script", "access denied">>,
      <<"captcha", "<html", "<script", "access denied", "Cloudflare">>,
      <<"captcha", "<html", "<script", "access denied", "<style">>,
      <<"CAPTCHA", "<HTML", "<script", "Access Denied", "Enable JavaScript">>,
      <<"captcha", "<html", "<script", "access denied", "<style",
        "404 not found", "captcha">>,
      <<"Checking your browser", "Cloudflare">>,
      <<"checking your browser", "cloudflare", "captcha">> }

\* documents whose length, lines and word counts vary, without phrases, and
\* documents of three long lines with phrases
SampleDocs ==
    { Document(chars, <<>>, lines, dominant, count) :
          chars \in {0, 150, 199, 200, 7500}, lines \in SampleLines,
          dominant \in {"the", "web", "market"},
          count \in {0, 100, 101, 102, 121, 400} }
    \cup { Document(chars, phrases, <<30, 30, 39>>, "market", count) :
          chars \in {199, 7500}, phrases \in SamplePhrases, count \in {0, 70} }

\* a document that can exist: its words fit in its characters, its counted
\* words and its phrases are among its words
WellFormed(d) ==
    /\ d.chars >= 2 * SumSeq(d.lines) - 1
    /\ 3 * Len(d.phrases)
         + d.bag["and"] + d.bag["the"] + d.bag["web"] + d.bag["market"]
         <= SumSeq(d.lines)

\* counts every occurrence
indicator_count_perOccurrence(d) ==
    Cardinality({ i \in DOMAIN d.phrases :
                     Lower(d.phrases[i]) \in problematic_indicators })

\* tests the text as written instead of text.lower()
indicator_count_caseSensitive(d) ==
    Cardinality({ indicator \in problematic_indicators :
                     \E i \in DOMAIN d.phrases : d.phrases[i] = indicator })

\* tasks.py:153-157: one is added for every listed indicator that is in
\* text.lower()
indicator_count(d) ==
    Cardinality({ indicator \in problematic_indicators :
                     \E i \in DOMAIN d.phrases : Lower(d.phrases[i]) = indicator })

\* lines of 10 words counted as well
meaningful_paragraphs_from10(d) ==
    Cardinality({ i \in DOMAIN d.lines : d.lines[i] >= 10 })

\* tasks.py:165-166: the non-blank lines of more than 10 words
meaningful_paragraphs(d) ==
    Cardinality({ i \in DOMAIN d.lines : d.lines[i] > 10 })

\* tasks.py:172: text.lower().split()
words(d) == SumSeq(d.lines)

\* tasks.py:177: Counter of the words that are not common words and are
\* longer than 3 characters
word_counts(d) ==
    [w \in { v \in Vocabulary : v \notin common_words /\ Len(v) > 3 } |-> d.bag[w]]

\* tasks.py:178: the largest count of most_common(20), 0 without words
most_common(d) ==
    LET wc == word_counts(d) IN
    IF DOMAIN wc = {} THEN 0
    ELSE CHOOSE c \in { wc[w] : w \in DOMAIN wc } :
             \A w \in DOMAIN wc : wc[w] <= c

\* what is_content_suitable_for_llm reads of a document
Features(d) ==
    Txt(d.chars, indicator_count(d), meaningful_paragraphs(d), words(d),
        most_common(d))

\* texts around the two caps
SamplePages ==
    { Txt(l, 0, MaxParas, 90, 4) :
        l \in { 400, 600, BrowserCap - 1, BrowserCap, BrowserCap + 1,
                FeedCap - 1, FeedCap, FeedCap + 1 } }

\* is_content_suitable_for_llm(text, url) is called on a document
Classify ==
    /\ \E d \in SampleDocs :
        /\ WellFormed(d)
        /\ doc' = d
        /\ verdict' = IF is_content_suitable_for_llm(Features(d))
                      THEN "True" ELSE "False"
    /\ prev_doc' = None
    /\ prev_verdict' = ""
    /\ UNCHANGED <<path, page, extracted>>
    /\ UNCHANGED <<vars, dvars, bvars, fvars, xvars, cvars, ovars>>

\* q begins with p and is longer
ProperPrefix(p, q) == Len(p) < Len(q) /\ SubSeq(q, 1, Len(p)) = p

\* d2 is d with more phrases in it, at the same length and with the same
\* lines and word counts
MorePhrases(d, d2) ==
    /\ d2.chars = d.chars
    /\ d2.lines = d.lines
    /\ d2.bag = d.bag
    /\ ProperPrefix(d.phrases, d2.phrases)

\* is_content_suitable_for_llm is called on the classified document with
\* more phrases in it
ClassifyWithMorePhrases ==
    /\ verdict # ""
    /\ \E d \in SampleDocs :
        /\ WellFormed(d)
        /\ MorePhrases(doc, d)
        /\ doc' = d
        /\ verdict' = IF is_content_suitable_for_llm(Features(d))
                      THEN "True" ELSE "False"
    /\ prev_doc' = doc
    /\ prev_verdict' = verdict
    /\ UNCHANGED <<path, page, extracted>>
    /\ UNCHANGED <<vars, dvars, bvars, fvars, xvars, cvars, ovars>>

\* browser_fetch.py:383-389: the extracted text of the rendered page is
\* returned, capped
ExtractBrowser ==
    /\ \E p \in SamplePages :
        /\ page' = p
        /\ extracted' = _fetch_with_browser(p)
    /\ path' = "browser"
    /\ UNCHANGED <<doc, verdict, prev_doc, prev_verdict>>
    /\ UNCHANGED <<vars, dvars, bvars, fvars, xvars, cvars, ovars>>

\* tasks.py:788-795: the text of the reader's answer is returned, capped
ExtractJina ==
    /\ \E p \in SamplePages :
        /\ page' = p
        /\ extracted' = fetch_with_jina(p)
    /\ path' = "jina"
    /\ UNCHANGED <<doc, verdict, prev_doc, prev_verdict>>
    /\ UNCHANGED <<vars, dvars, bvars, fvars, xvars, cvars, ovars>>

\* tasks.py:641-645: the formatted feed is returned, capped
ExtractFeed ==
    /\ \E p \in SamplePages :
        /\ page' = p
        /\ extracted' = _format_feed(p)
    /\ path' = "feed"
    /\ UNCHANGED <<doc, verdict, prev_doc, prev_verdict>>
    /\ UNCHANGED <<vars, dvars, bvars, fvars, xvars, cvars, ovars>>

NextText ==
    \/ Classify
    \/ ClassifyWithMorePhrases
    \/ ExtractBrowser
    \/ ExtractJina
    \/ ExtractFeed

\* the classifier and the capped extraction paths applied to sample inputs
SpecText == Init /\ [][NextText]_<<vars, dvars, bvars, tvars, fvars, xvars, cvars, ovars>>

TypeOKText ==
    /\ verdict \in {"", "True", "False"}
    /\ path \in {"", "browser", "jina", "feed"}
    /\ doc = None \/ doc \in SampleDocs

----------------------------------------------------------------------------
(* Properties of the classifier and of the caps *)

\* the cap of an extraction path
CapOf(p) == IF p = "browser" THEN 15000 ELSE 60000

\* C18: a returned text is at most as long as the cap of its path, marker
\* included, and it carries the marker exactly when the text before the cap
\* was longer than the cap
C18_LengthWithinCap ==
    (path # "" /\ extracted # None) =>
        /\ extracted.len <= CapOf(path)
        /\ extracted.marker <=> page.len > CapOf(path)

\* the listed indicators that occur in the lower-cased document
IndicatorsPresent(d) ==
    { Lower(d.phrases[i]) : i \in DOMAIN d.phrases } \cap problematic_indicators

\* the occurrences of listed indicators in the lower-cased document
IndicatorOccurrences(d) ==
    { i \in DOMAIN d.phrases : Lower(d.phrases[i]) \in problematic_indicators }

LongLines(d) == { i \in DOMAIN d.lines : d.lines[i] > 10 }

\* a word longer than 3 characters that is not a stopword occurs more than
\* 100 times and makes up more than 10% of the more than 100 words
RepetitionAnomaly(d) ==
    /\ SumSeq(d.lines) > 100
    /\ \E w \in DOMAIN d.bag :
          /\ Len(w) > 3
          /\ w \notin common_words
          /\ d.bag[w] > 100
          /\ 10 * d.bag[w] > SumSeq(d.lines)

C20_OccurrencesCounted ==
    verdict # "" =>
        (Cardinality(IndicatorOccurrences(doc)) >= 5 => verdict = "False")

\* C20 as amended: the count is the number of different listed indicators
\* that occur, whatever their case and however often each occurs; 5 or more
\* reject the document, fewer do not
C20_DistinctIndicatorsCounted ==
    verdict # "" =>
        /\ Cardinality(IndicatorsPresent(doc)) >= 5 => verdict = "False"
        /\ (/\ Cardinality(IndicatorsPresent(doc)) < 5
            /\ doc.chars >= 200
            /\ Cardinality(LongLines(doc)) >= 3
            /\ ~RepetitionAnomaly(doc)) => verdict = "True"

\* a document rejected for its 5 different indicators alone, some of them
\* written in upper case
C20_Witness ==
    /\ verdict = "False"
    /\ Cardinality(IndicatorsPresent(doc)) = 5
    /\ \E i \in DOMAIN doc.phrases : doc.phrases[i] # Lower(doc.phrases[i])
    /\ doc.chars >= 200
    /\ Cardinality(LongLines(doc)) >= 3
    /\ ~RepetitionAnomaly(doc)

\* the listed indicators of d are among those of d2, which has more phrases
AddsIndicators(d, d2) ==
    /\ d2.chars = d.chars /\ d2.lines = d.lines /\ d2.bag = d.bag
    /\ Len(d.phrases) < Len(d2.phrases)
    /\ \A i \in DOMAIN d.phrases : d2.phrases[i] = d.phrases[i]

\* C21: a document and the same document with indicator substrings added,
\* at the same length and with the same lines: when the first is rejected
\* the second is rejected, so an accepted document can only stay accepted
\* or become rejected
C21_MonotoneInIndicators ==
    (prev_verdict # "" /\ AddsIndicators(prev_doc, doc)) =>
        (prev_verdict = "False" => verdict = "False")

\* an accepted document of 4 indicators is rejected once a fifth is added
C21_Witness ==
    /\ prev_verdict = "True" /\ verdict = "False"
    /\ AddsIndicators(prev_doc, doc)
    /\ Cardinality(IndicatorsPresent(prev_doc)) = 4
    /\ Cardinality(IndicatorsPresent(doc)) = 5

\* the phrases of a Cloudflare challenge page are in the document
ChallengePage(d) ==
    /\ \E i \in DOMAIN d.phrases : Lower(d.phrases[i]) = "checking your browser"
    /\ \E i \in DOMAIN d.phrases : Lower(d.phrases[i]) = "cloudflare"

\* C22: a Cloudflare challenge page is classified unsuitable whatever its
\* length and lines
C22_ChallengePageRejected ==
    (verdict # "" /\ ChallengePage(doc)) => verdict = "False"

----------------------------------------------------------------------------
(* Feed discovery: fetch_rss_feed (tasks.py:648-742) with _try_parse_feed  *)
(* (600-613) and the joining of the entries in _format_feed (616-640).     *)
(* A URL is its host and the segments of its path.                         *)

\* tasks.py:623  feed.entries[:30]
MaxFeedEntries == 30
\* tasks.py:636  len(summary) > 1000
MaxSummaryLen == 1000
\* tasks.py:736  consecutive_misses >= 3
MaxConsecutiveMisses == 3

\* tasks.py:597
RSS_FEED_PATHS ==
    << <<"feed">>, <<"rss">>, <<"rss", "all">>, <<"feeds", "all.atom.xml">>,
       <<"feed.xml">>, <<"rss.xml">>, <<"atom.xml">>, <<"index.xml">> >>

FeedUrl(h, segs) == [host |-> h, path |-> segs]

\* base_url + path for the page's own host
CommonPathUrl(k) == FeedUrl("site", RSS_FEED_PATHS[k])

\* the path segments that begin with "comments"
CommentSegments == { "comments", "comments.rss" }

\* no URL is skipped
IsCommentFeed_never(u) == FALSE

\* '/comments' in full_url (lines 691, 723)
IsCommentFeed(u) == \E i \in DOMAIN u.path : u.path[i] \in CommentSegments

\* the feed links of the sample pages, urljoin applied, in document order;
\* the empty list also stands for a page that could not be fetched
SampleDeclared ==
    { <<>>,
      << FeedUrl("site", <<"blog", "feed">>) >>,
      << FeedUrl("site", <<"comments", "feed">>) >>,
      << FeedUrl("site", <<"blog", "feed">>),
         FeedUrl("site", <<"blog", "comments.rss">>),
         FeedUrl("site", <<"blog", "feed">>),
         FeedUrl("feeds", <<"site">>) >>,
      << FeedUrl("site", <<"rss">>), FeedUrl("feeds", <<"site">>) >> }

\* a feed of n entries, each with a title, a link and a summary of the given
\* lengths (0: absent), under a feed title of the given length
Feed(tl, n, t, l, sm) ==
    [title |-> tl,
     entries |-> [i \in 1..n |-> [id |-> i, title |-> t, link |-> l, summary |-> sm]]]

SampleFeeds ==
    { Feed(10, 1, 40, 60, 1500), Feed(0, 1, 40, 60, 300),
      Feed(10, 12, 20, 0, 0), Feed(10, 12, 40, 60, 200),
      Feed(10, MaxFeedEntries, 40, 60, 200),
      Feed(0, MaxFeedEntries + 1, 40, 60, 200) }

\* answers to the request of a feed candidate: an error or a status other
\* than 200, a body without entries, a feed
SampleFeedResponses ==
    { [status |-> 404, feed |-> Feed(0, 0, 0, 0, 0)],
      [status |-> 200, feed |-> Feed(0, 0, 0, 0, 0)] }
    \cup { [status |-> 200, feed |-> f] : f \in SampleFeeds }

\* _try_parse_feed: the parsed feed when the status is 200 and it has
\* entries, None otherwise
_try_parse_feed(resp) ==
    IF resp.status = 200 /\ resp.feed.entries # <<>> THEN resp.feed ELSE None

\* every entry of the feed
FirstEntries_all(entries) == entries

\* feed.entries[:30]
FirstEntries(entries) ==
    IF Len(entries) > MaxFeedEntries THEN SubSeq(entries, 1, MaxFeedEntries)
    ELSE entries

\* lines 629-639: the lengths of the lines appended for one entry
EntryLines(e) ==
    << 3 + e.title >>
    \o (IF e.link > 0 THEN << 6 + e.link >> ELSE <<>>)
    \o (IF e.summary > 0
        THEN << IF e.summary > MaxSummaryLen THEN MaxSummaryLen + 3
                ELSE e.summary >>
        ELSE <<>>)
    \o << 0 >>

\* the characters of the lines of one entry, each with the '\n' after it
EntryChars(e) == SumSeq(EntryLines(e)) + Len(EntryLines(e))

\* lines 618-640: '\n'.join(lines) over the title lines and the entry lines:
\* its length and the entries of its "## title" blocks in order
JoinedFeedText(f) ==
    LET kept == FirstEntries(f.entries)
        chars == (IF f.title > 0 THEN 2 + f.title + 2 ELSE 0)
                 + SumSeq([i \in DOMAIN kept |-> EntryChars(kept[i])])
    IN [len |-> IF chars > 0 THEN chars - 1 ELSE 0,
        marker |-> FALSE,
        blocks |-> [i \in DOMAIN kept |-> kept[i].id]]

\* the link-tag feeds are not tried
AfterPage_pathsOnly(feeds) == "paths"

\* line 699: if link_tag_feeds
AfterPage(feeds) == IF feeds # <<>> THEN "links" ELSE "paths"

\* gives up after more than 3 misses
GivesUp_after4(misses) == misses > MaxConsecutiveMisses

\* line 736
GivesUp(misses) == misses >= MaxConsecutiveMisses

\* lines 684-694: the declared links that are not comment feeds
LinkTagFeeds(links) == SelectSeq(links, LAMBDA u : ~IsCommentFeed(u))

Outcome(fd, res) ==
    IF fd = None THEN "miss" ELSE IF res = None THEN "short" ELSE "usable"

\* lines 661-699: the page is fetched and its feed links are collected
F_Discover ==
    /\ f_pc = "idle"
    /\ \E links \in SampleDeclared :
        /\ declared' = links
        /\ link_tag_feeds' = LinkTagFeeds(links)
        /\ f_pc' = AfterPage(LinkTagFeeds(links))
    /\ link_i' = 1
    /\ path_i' = 1
    /\ UNCHANGED <<seen, consecutive_misses, requests, feed, result, f_ret>>
    /\ UNCHANGED <<vars, dvars, bvars, tvars, xvars, cvars, ovars>>

\* lines 701-711: one iteration of the loop over link_tag_feeds
F_TryLink ==
    /\ f_pc = "links"
    /\ link_i <= Len(link_tag_feeds)
    /\ LET feed_url == link_tag_feeds[link_i] IN
       IF feed_url \in seen
       THEN /\ link_i' = link_i + 1
            /\ UNCHANGED <<f_pc, seen, requests, feed, result, f_ret>>
       ELSE \E resp \in SampleFeedResponses :
            LET fd == _try_parse_feed(resp)
                res == IF fd = None THEN None
                       ELSE _format_feed(JoinedFeedText(fd))
            IN /\ seen' = seen \cup {feed_url}
               /\ feed' = fd
               /\ result' = IF fd = None THEN result ELSE res
               /\ requests' = Append(requests,
                      [url |-> feed_url, via |-> "link",
                       outcome |-> Outcome(fd, res)])
               /\ IF fd # None /\ res # None
                  THEN f_ret' = res /\ f_pc' = "done" /\ UNCHANGED link_i
                  ELSE link_i' = link_i + 1 /\ UNCHANGED <<f_pc, f_ret>>
    /\ UNCHANGED <<declared, link_tag_feeds, path_i, consecutive_misses>>
    /\ UNCHANGED <<vars, dvars, bvars, tvars, xvars, cvars, ovars>>

\* lines 712-716: no link-tag feed had usable content
F_LinksExhausted ==
    /\ f_pc = "links"
    /\ link_i > Len(link_tag_feeds)
    /\ f_pc' = "paths"
    /\ UNCHANGED <<declared, link_tag_feeds, seen, link_i, path_i,
                   consecutive_misses, requests, feed, result, f_ret>>
    /\ UNCHANGED <<vars, dvars, bvars, tvars, xvars, cvars, ovars>>

\* lines 717-738: one iteration of the loop over RSS_FEED_PATHS
F_TryPath ==
    /\ f_pc = "paths"
    /\ path_i <= Len(RSS_FEED_PATHS)
    /\ LET feed_url == CommonPathUrl(path_i) IN
       IF \/ \E i \in DOMAIN link_tag_feeds : link_tag_feeds[i] = feed_url
          \/ IsCommentFeed(feed_url)
       THEN /\ path_i' = path_i + 1
            /\ UNCHANGED <<f_pc, consecutive_misses, requests, feed, result,
                           f_ret>>
       ELSE \E resp \in SampleFeedResponses :
            LET fd == _try_parse_feed(resp)
                res == IF fd = None THEN None
                       ELSE _format_feed(JoinedFeedText(fd))
            IN /\ feed' = fd
               /\ result' = IF fd = None THEN result ELSE res
               /\ requests' = Append(requests,
                      [url |-> feed_url, via |-> "path",
                       outcome |-> Outcome(fd, res)])
               /\ IF fd # None
                  THEN IF res # None
                       THEN /\ f_ret' = res
                            /\ f_pc' = "done"
                            /\ UNCHANGED <<path_i, consecutive_misses>>
                       ELSE /\ consecutive_misses' = 0
                            /\ path_i' = path_i + 1
                            /\ UNCHANGED <<f_pc, f_ret>>
                  ELSE /\ consecutive_misses' = consecutive_misses + 1
                       /\ IF GivesUp(consecutive_misses + 1)
                          THEN f_pc' = "done" /\ UNCHANGED path_i
                          ELSE path_i' = path_i + 1 /\ UNCHANGED f_pc
                       /\ UNCHANGED f_ret
    /\ UNCHANGED <<declared, link_tag_feeds, seen, link_i>>
    /\ UNCHANGED <<vars, dvars, bvars, tvars, xvars, cvars, ovars>>

\* lines 740-742: every common path was tried
F_PathsExhausted ==
    /\ f_pc = "paths"
    /\ path_i > Len(RSS_FEED_PATHS)
    /\ f_pc' = "done"
    /\ UNCHANGED <<declared, link_tag_feeds, seen, link_i, path_i,
                   consecutive_misses, requests, feed, result, f_ret>>
    /\ UNCHANGED <<vars, dvars, bvars, tvars, xvars, cvars, ovars>>

NextFeed ==
    \/ F_Discover
    \/ F_TryLink
    \/ F_LinksExhausted
    \/ F_TryPath
    \/ F_PathsExhausted

\* one call of fetch_rss_feed
SpecFeed == Init /\ [][NextFeed]_<<vars, dvars, bvars, tvars, fvars, xvars, cvars, ovars>>

TypeOKFeed ==
    /\ f_pc \in {"idle", "links", "paths", "done"}
    /\ consecutive_misses \in 0..MaxConsecutiveMisses
    /\ Len(requests) <= Len(link_tag_feeds) + Len(RSS_FEED_PATHS)
    /\ f_pc # "done" => f_ret = None

----------------------------------------------------------------------------
(* Properties of feed discovery *)

\* a path segment beginning with "comments" is in the URL
HasComments(u) ==
    \E i \in DOMAIN u.path : u.path[i] = "comments" \/ u.path[i] = "comments.rss"

\* the feeds the page declared that are article feeds
DeclaredFeeds == { declared[i] : i \in { j \in DOMAIN declared : ~HasComments(declared[j]) } }

ThreeFailedPaths(i) ==
    \A k \in i..(i + 2) :
        /\ k \in DOMAIN requests
        /\ requests[k].via = "path"
        /\ requests[k].outcome # "usable"

\* C24 as stated: after three consecutive common-path requests that yielded
\* no usable feed, a feed that parses but is too short included, no further
\* candidate is requested and the call returns None
C24_StopsAfterThreeFailures ==
    \A i \in DOMAIN requests :
        ThreeFailedPaths(i) =>
            /\ Len(requests) = i + 2
            /\ f_pc = "done" /\ f_ret = None

\* the requests i, i+1 and i+2 are common-path requests that found no feed
ThreeMisses(i) ==
    \A k \in i..(i + 2) :
        /\ k \in DOMAIN requests
        /\ requests[k].via = "path"
        /\ requests[k].outcome = "miss"

\* C24 as amended: after three consecutive common-path requests that found
\* no feed (error, status other than 200, no entries) no further candidate
\* is requested and the call returns None; a feed that parses but is too
\* short is not such a request and starts the count again, so that the call
\* ends before the last common path only after three such requests
C24_StopsAfterThreeMisses ==
    /\ \A i \in DOMAIN requests :
          ThreeMisses(i) =>
              /\ Len(requests) = i + 2
              /\ f_pc = "done" /\ f_ret = None
    /\ (f_pc = "done" /\ f_ret = None /\ path_i <= Len(RSS_FEED_PATHS)) =>
          (Len(requests) >= 3 /\ ThreeMisses(Len(requests) - 2))

\* two misses, a feed that is too short, then three misses end the call
C24_Witness ==
    /\ f_pc = "done" /\ f_ret = None
    /\ Len(requests) = 6
    /\ requests[1].outcome = "miss" /\ requests[2].outcome = "miss"
    /\ requests[3].outcome = "short"
    /\ ThreeMisses(4)

\* the length of the joined text of a feed, from its first 30 entries
PlainLength(f) ==
    LET n == IF Len(f.entries) > 30 THEN 30 ELSE Len(f.entries)
        per(e) == (3 + e.title + 1)
                  + (IF e.link > 0 THEN 6 + e.link + 1 ELSE 0)
                  + (IF e.summary > 1000 THEN 1004
                     ELSE IF e.summary > 0 THEN e.summary + 1 ELSE 0)
                  + 1
    IN (IF f.title > 0 THEN f.title + 4 ELSE 0)
       + SumSeq([i \in 1..n |-> per(f.entries[i])]) - 1

C26_NoCommentFeedRequested ==
    \A i \in DOMAIN requests : ~HasComments(requests[i].url)

\* the page declared a comment feed next to an article feed, and candidates
\* were requested from link tags and from common paths
C26_Witness ==
    /\ \E i \in DOMAIN declared : HasComments(declared[i])
    /\ \E i \in DOMAIN requests : requests[i].via = "link"
    /\ \E i \in DOMAIN requests : requests[i].via = "path"

----------------------------------------------------------------------------
(* Further properties of the digest run *)

\* C27: a source whose fetch returned None is not handed to summarization
\* as content of that source
C27_NullNotSummarized ==
    /\ \A i \in DOMAIN sources_content : sources_content[i].body # "None"
    /\ \A k \in DOMAIN prompt_inputs :
          \A i \in DOMAIN prompt_inputs[k] : prompt_inputs[k][i].body # "None"

----------------------------------------------------------------------------
(* Extraction of the text in _fetch_with_browser: by Playwright            *)
(* (browser_fetch.py:152-180), by requests when no driver could be created *)
(* (216-240), by Selenium (325-389)                                        *)

\* browser_fetch.py:336-340, the domains as label sequences
site_specific_selectors ==
    [site \in { <<"mv-voice", "com">>, <<"sfchronicle", "com">>,
                <<"mercurynews", "com">> } |->
        CASE site = <<"mv-voice", "com">> ->
                 << ".story", ".story-body", ".article-body", ".article-text" >>
          [] site = <<"sfchronicle", "com">> ->
                 << ".article-body", ".article", ".story-body", ".paywall-article" >>
          [] site = <<"mercurynews", "com">> ->
                 << ".article-body", ".entry-content", ".article", ".story-body" >>]

\* browser_fetch.py:363-367
content_selectors ==
    << "main", "article", "#content", ".content", "#main", ".main", ".article",
       ".post", ".story", ".entry", "[role=main]", ".story-body",
       ".article-body", ".entry-content", ".post-content", ".article-content",
       ".story-content" >>

\* a loaded page: its domain, the selectors for which the live document has
\* elements, the selectors for which find_elements raises, the selectors
\* that select elements of the parsed page source, and the backend
Page(dom, live, raising, soup, backend) ==
    [domain |-> dom, live |-> live, raising |-> raising, soup |-> soup,
     backend |-> backend]

SampleHtml ==
    { Page(dom, live, raising, soup, backend) :
        dom \in { <<"www", "mv-voice", "com">>, <<"www", "mercurynews", "com">>,
                  <<"example", "com">> },
        live \in { {}, {".article-body"}, {".story", ".article"} },
        raising \in { {}, {".story"}, {".article-body"} },
        soup \in { {}, {"article"}, {"main", ".story-body"}, {".article-content"} },
        backend \in { "playwright", "requests", "selenium" } }

\* the first selector of the list that is in the set, "" when none is
FirstSelector(selectors, matching) ==
    IF \E i \in DOMAIN selectors : selectors[i] \in matching
    THEN selectors[CHOOSE i \in DOMAIN selectors :
                       /\ selectors[i] \in matching
                       /\ \A j \in 1..(i - 1) : selectors[j] \notin matching]
    ELSE ""

\* lines 343-358: the first selector of the page's site that finds elements
\* without raising
SiteSpecificContent(pg) ==
    LET sites == { site \in DOMAIN site_specific_selectors :
                       Contains(pg.domain, site) }
    IN IF sites = {} THEN None
       ELSE LET site == CHOOSE st \in sites : TRUE
                sel == FirstSelector(site_specific_selectors[site],
                                     pg.live \ pg.raising)
            IN IF sel = "" THEN None ELSE [tier |-> "site", selector |-> sel]

\* lines 361-373: the first generic selector that selects elements
GenericContent(pg) ==
    LET sel == FirstSelector(content_selectors, pg.soup)
    IN IF sel = "" THEN None ELSE [tier |-> "generic", selector |-> sel]

\* the page is loaded by one of the backends
X_Load ==
    /\ x_pc = "idle"
    /\ \E pg \in SampleHtml :
        /\ html' = pg
        /\ x_pc' = IF pg.backend = "selenium" THEN "site" ELSE "whole_page"
    /\ UNCHANGED <<main_content, x_text>>
    /\ UNCHANGED <<vars, dvars, bvars, tvars, fvars, cvars, ovars>>

\* lines 165-173 and 226-234: Playwright and requests take the text of the
\* whole page after script, style, header, footer, nav and aside are removed
X_WholePage ==
    /\ x_pc = "whole_page"
    /\ x_text' = [tier |-> "body", selector |-> "", denylist |-> FALSE]
    /\ x_pc' = "done"
    /\ UNCHANGED <<html, main_content>>
    /\ UNCHANGED <<vars, dvars, bvars, tvars, fvars, cvars, ovars>>

\* lines 343-358
X_SiteSpecific ==
    /\ x_pc = "site"
    /\ main_content' = SiteSpecificContent(html)
    /\ x_pc' = "generic"
    /\ UNCHANGED <<html, x_text>>
    /\ UNCHANGED <<vars, dvars, bvars, tvars, fvars, cvars, ovars>>

\* lines 360-373
X_Generic ==
    /\ x_pc = "generic"
    /\ main_content' = IF main_content = None THEN GenericContent(html)
                       ELSE main_content
    /\ x_pc' = "text"
    /\ UNCHANGED <<html, x_text>>
    /\ UNCHANGED <<vars, dvars, bvars, tvars, fvars, cvars, ovars>>

\* lines 375-382: the text of main_content, or of the whole page after the
\* elements of the denylist are removed
X_Text ==
    /\ x_pc = "text"
    /\ x_text' = IF main_content # None
                 THEN [tier |-> main_content.tier,
                       selector |-> main_content.selector, denylist |-> FALSE]
                 ELSE [tier |-> "body", selector |-> "", denylist |-> TRUE]
    /\ x_pc' = "done"
    /\ UNCHANGED <<html, main_content>>
    /\ UNCHANGED <<vars, dvars, bvars, tvars, fvars, cvars, ovars>>

NextExtract ==
    \/ X_Load
    \/ X_WholePage
    \/ X_SiteSpecific
    \/ X_Generic
    \/ X_Text

\* the extraction of one page by _fetch_with_browser
SpecExtract ==
    Init /\ [][NextExtract]_<<vars, dvars, bvars, tvars, fvars, xvars, cvars, ovars>>

TypeOKExtract ==
    /\ x_pc \in {"idle", "whole_page", "site", "generic", "text", "done"}
    /\ x_pc = "done" => x_text.tier \in {"site", "generic", "body"}

\* a selector of the page's site finds elements
SiteMatch(pg) ==
    \E site \in DOMAIN site_specific_selectors :
        /\ Contains(pg.domain, site)
        /\ \E i \in DOMAIN site_specific_selectors[site] :
              site_specific_selectors[site][i] \in pg.live \ pg.raising

\* a generic selector selects elements
GenericMatch(pg) ==
    \E i \in DOMAIN content_selectors : content_selectors[i] \in pg.soup

\* C28: the text is taken from a per-domain selector when one matches, from
\* a generic selector only when no per-domain selector matched and a generic
\* one matches, and from the whole body with the denylist removed only when
\* neither matched
C28_TierPriority ==
    x_pc = "done" =>
        /\ x_text.tier = "site" <=> SiteMatch(html)
        /\ x_text.tier = "generic" <=> (~SiteMatch(html) /\ GenericMatch(html))
        /\ x_text.tier = "body" <=> (~SiteMatch(html) /\ ~GenericMatch(html))
        /\ x_text.tier = "body" => x_text.denylist

----------------------------------------------------------------------------
(* Clean-up of news items: the cleanup_old_news_items task                 *)
(* (tasks.py:1022-1066) and the management command                         *)
(* (management/commands/cleanup_old_news_items.py:31-90).  The age of a    *)
(* row is the time since its created_at, in days.                          *)

\* tasks.py:1030  timedelta(days=30)
DefaultDays == 30
\* tasks.py:1052  [:100]
KeepPerSection == 100

NewsItem(id, u, sec, age) ==
    [id |-> id, user_profile |-> u, news_section |-> sec, age |-> age]

\* tables: empty; two small sections; rows of equal age; a section of more
\* than 100 rows of every age from 0; a section of more than 100 old rows
SampleTables ==
    { {},
      { NewsItem(1, 1, 1, 5), NewsItem(2, 1, 1, DefaultDays),
        NewsItem(3, 1, 1, DefaultDays + 1), NewsItem(4, 1, 1, 40),
        NewsItem(5, 1, 2, 35), NewsItem(6, 2, 3, 36), NewsItem(7, 2, 3, 8),
        NewsItem(8, 2, 3, 9) },
      { NewsItem(1, 1, 1, 31), NewsItem(2, 1, 1, 31), NewsItem(3, 1, 1, 31),
        NewsItem(4, 1, 1, 6) },
      { NewsItem(a + 1, 1, 1, a) : a \in 0..(KeepPerSection + 1) }
          \cup { NewsItem(500, 1, 2, 50) },
      { NewsItem(a, 2, 7, a) : a \in (DefaultDays + 1)..(DefaultDays + KeepPerSection + 2) } }

\* the task, and the command with its options
SampleOptions ==
    { [entry |-> "task", days |-> DefaultDays, keep_per_section |-> KeepPerSection,
       dry_run |-> FALSE] }
    \cup [entry : {"command"}, days : {DefaultDays, 7},
          keep_per_section : {KeepPerSection, 0, 1, 2}, dry_run : BOOLEAN]

\* created_at <= cutoff_date
IsOld_inclusive(row, days) == row.age >= days

\* created_at__lt=cutoff_date
IsOld(row, days) == row.age > days

\* values('user_profile', 'news_section')
SectionsOf(rows) == { <<r.user_profile, r.news_section>> : r \in rows }

RowsOf(rows, pair) ==
    { r \in rows : r.user_profile = pair[1] /\ r.news_section = pair[2] }

\* order_by('-created_at')[:k]: the possible results, rows of equal
\* created_at being in no defined order
MostRecent(rows, k) ==
    LET sure == { r \in rows :
                    Cardinality({ q \in rows : q.age <= r.age }) <= k }
        tied == { r \in rows \ sure :
                    Cardinality({ q \in rows : q.age < r.age }) < k }
        size == IF Cardinality(rows) < k THEN Cardinality(rows) ELSE k
    IN { sure \cup more : more \in { m \in SUBSET tied :
                                       Cardinality(sure \cup m) = size } }

\* lines 1030-1042 (command 32-60): the options are read and the sections
\* are listed
C_Start ==
    /\ c_pc = "idle"
    /\ \E tbl \in SampleTables, opt \in SampleOptions :
        /\ items' = tbl
        /\ options' = opt
        /\ section_counts' = SectionsOf(tbl)
    /\ protected_ids' = {}
    /\ c_pc' = "protect"
    /\ UNCHANGED <<deleted, delete_count>>
    /\ UNCHANGED <<vars, dvars, bvars, tvars, fvars, xvars, ovars>>

\* lines 1044-1054 (command 62-72): the most recent rows of one section are
\* protected
C_Protect ==
    /\ c_pc = "protect"
    /\ \E pair \in section_counts :
        /\ \E recent \in MostRecent(RowsOf(items, pair), options.keep_per_section) :
              protected_ids' = protected_ids \cup { r.id : r \in recent }
        /\ section_counts' = section_counts \ {pair}
    /\ UNCHANGED <<c_pc, items, options, deleted, delete_count>>
    /\ UNCHANGED <<vars, dvars, bvars, tvars, fvars, xvars, ovars>>

\* lines 1056-1066 (command 74-90): the old rows that are not protected are
\* counted and, unless this is a dry run, deleted
C_Delete ==
    /\ c_pc = "protect"
    /\ section_counts = {}
    /\ LET items_to_delete ==
               { r \in items : IsOld(r, options.days) /\ r.id \notin protected_ids }
       IN /\ delete_count' = Cardinality(items_to_delete)
          /\ IF options.dry_run
             THEN UNCHANGED <<items, deleted>>
             ELSE /\ items' = items \ items_to_delete
                  /\ deleted' = items_to_delete
    /\ c_pc' = "done"
    /\ UNCHANGED <<options, section_counts, protected_ids>>
    /\ UNCHANGED <<vars, dvars, bvars, tvars, fvars, xvars, ovars>>

NextCleanup ==
    \/ C_Start
    \/ C_Protect
    \/ C_Delete

\* one run of the clean-up
SpecCleanup ==
    Init /\ [][NextCleanup]_<<vars, dvars, bvars, tvars, fvars, xvars, cvars, ovars>>

TypeOKCleanup ==
    /\ c_pc \in {"idle", "protect", "done"}
    /\ delete_count \in 0..Cardinality(items \cup deleted)
    /\ deleted \cap items = {}

\* the rows of r's section other than r that are not older than r
AtLeastAsRecent(r, rows) ==
    { q \in rows \ {r} : /\ q.user_profile = r.user_profile
                         /\ q.news_section = r.news_section
                         /\ q.age <= r.age }

\* the rows of r's section that are newer than r
Newer(r, rows) ==
    { q \in rows : /\ q.user_profile = r.user_profile
                   /\ q.news_section = r.news_section
                   /\ q.age < r.age }

\* C29: every deleted row is older than the cut-off and has at least
\* keep_per_section rows of its section that are not older than it; a run
\* that is not a dry run deletes every row that is older than the cut-off
\* and has at least keep_per_section newer rows in its section; no section
\* is left with fewer than its keep_per_section most recent rows
C29_DeletesOnlyOldUnprotected ==
    c_pc = "done" =>
        LET all == items \cup deleted IN
        /\ \A r \in deleted :
              /\ r.age > options.days
              /\ Cardinality(AtLeastAsRecent(r, all)) >= options.keep_per_section
        /\ ~options.dry_run =>
              \A r \in all :
                  (/\ r.age > options.days
                   /\ Cardinality(Newer(r, all)) >= options.keep_per_section)
                      => r \in deleted
        /\ \A r \in all :
              Cardinality(Newer(r, all)) < options.keep_per_section =>
                  \/ r \in items
                  \/ \E q \in items : /\ q \in AtLeastAsRecent(r, all)
                                      /\ q.age = r.age
        /\ delete_count = (IF options.dry_run
                           THEN Cardinality({ r \in all : r.age > options.days
                                                /\ r.id \notin protected_ids })
                           ELSE Cardinality(deleted))

\* the task deleted the 2 oldest rows of a section of 102 old rows and kept
\* 100 rows older than the cut-off
C29_Witness ==
    /\ c_pc = "done" /\ options.entry = "task"
    /\ Cardinality(deleted) = 2
    /\ Cardinality(items) = 100
    /\ \A r \in items : r.age > 30

-----------------------------------------------------------------------------
(* Further properties of fetch_url_content *)

\* every strategy invocation of a call is a network or browser call that
\* ends, so a call that can take a step takes one
FairSpec == Spec /\ WF_vars(Next)

\* number of invocations of strategy s so far
Invocations(s) == Cardinality(Idx(s))

\* C37: every fetch_url_content call terminates, each of its network and
\* browser calls terminating, after at most one feed discovery, one
\* reader-proxy request, one homepage pre-visit, max_retries requests of the
\* target URL and max_retries + 2 browser invocations, whatever the outcomes
C37_TerminatesWithinBound ==
    /\ [](/\ Invocations("feed") <= 1
          /\ Invocations("jina") <= 1
          /\ Invocations("home") <= 1
          /\ Invocations("http") <= max_retries
          /\ Invocations("browser") <= max_retries + 2)
    /\ <>(pc = "done")

\* a finished call that used every strategy as often as it can
C37_Witness ==
    /\ pc = "done"
    /\ Invocations("feed") = 1
    /\ Invocations("jina") = 1
    /\ Invocations("home") = 1
    /\ Invocations("http") = max_retries
    /\ Invocations("browser") = max_retries + 2

\* the call ended, without an exception, on an invocation of the browser
EndedByBrowser ==
    /\ pc = "done"
    /\ ~raised
    /\ calls # <<>>
    /\ calls[Len(calls)] = "browser"

\* C30: whenever the browser strategy is the one that ends a
\* fetch_url_content call, the value returned is exactly the value the browser
\* fetch returned: the suitability classifier is not applied to it, so an
\* unsuitable or empty browser result is returned as is, not turned into None
C30_BrowserResultReturnedAsIs ==
    EndedByBrowser => (method = "browser" /\ ret = browser_ret)

\* a call the browser ended with an empty, unsuitable text, which is returned
C30_Witness ==
    /\ EndedByBrowser
    /\ browser_ret # None
    /\ browser_ret.len = 0
    /\ ~is_content_suitable_for_llm(browser_ret)
    /\ ret = browser_ret


-----------------------------------------------------------------------------
(* Properties of the backends of _fetch_with_browser *)

\* the outcome of attempt i of worker w's browser fetch is a page text
Succeeded(w, i) == attempts[w][i][2] = "text"

\* Playwright is tried first and once; Selenium only right after a failed
\* Playwright; the plain request only right after a driver that could not
\* be created
BackendOrder(w) ==
    \A i \in DOMAIN attempts[w] :
        /\ (attempts[w][i][1] = "playwright") <=> (i = 1)
        /\ attempts[w][i][1] = "selenium" =>
              (i = 2 /\ attempts[w][1] = <<"playwright", "failed">>)
        /\ attempts[w][i][1] = "requests" =>
              (i = 3 /\ attempts[w][2] = <<"selenium", "no_driver">>)

\* a returned text is the text of the only backend that succeeded, the last
\* one tried
ReturnsFirstSuccess(w) ==
    b_result[w] \in {"text", "plain_text"} =>
        /\ attempts[w] # <<>>
        /\ \A i \in DOMAIN attempts[w] : Succeeded(w, i) <=> (i = Len(attempts[w]))

\* Playwright, Selenium and the plain request were all tried and all failed
AllFailed(w) ==
    /\ { attempts[w][i][1] : i \in DOMAIN attempts[w] } =
          {"playwright", "selenium", "requests"}
    /\ \A i \in DOMAIN attempts[w] : ~Succeeded(w, i)

\* C31 as stated: the backends are tried in the order Playwright, Selenium,
\* plain request, each only after the one before it failed as described; the
\* text returned is that of the first backend that succeeded; and the
\* function raises only after all of them failed
C31_RaisesOnlyAfterAllFailed ==
    \A w \in Workers :
        /\ BackendOrder(w)
        /\ ReturnsFirstSuccess(w)
        /\ b_result[w] = "raised" => AllFailed(w)

\* C31, amended: the order and the returned text are as stated; the function
\* raises when selenium cannot be imported (no backend tried), when the
\* Selenium driver was created and loading or extracting the page raised
\* (the plain request is not tried), or when all three backends failed; in
\* each case no backend had succeeded
C31_BackendFallback ==
    \A w \in Workers :
        /\ BackendOrder(w)
        /\ ReturnsFirstSuccess(w)
        /\ b_result[w] = "raised" =>
              /\ \A i \in DOMAIN attempts[w] : ~Succeeded(w, i)
              /\ \/ attempts[w] = <<>>
                 \/ attempts[w] = <<<<"playwright", "failed">>,
                                    <<"selenium", "failed">>>>
                 \/ AllFailed(w)

\* a fetch that raised after Playwright failed and the Selenium driver, once
\* created, failed on the page: the plain request was not tried
C31_Witness ==
    \E w \in Workers :
        /\ b_result[w] = "raised"
        /\ Len(attempts[w]) = 2
        /\ attempts[w][2] = <<"selenium", "failed">>


-----------------------------------------------------------------------------
(* Properties of the return value of send_news_update *)

-----------------------------------------------------------------------------
(* The news items of a digest run (tasks.py:249-253, 361-590): the recent  *)
(* items are read, the summary is parsed, duplicates are filtered, the     *)
(* remaining items are stored one by one and the email is sent.  A text is *)
(* the sequence of its whitespace-separated words.                         *)

\* largest number of digest runs of the user
MaxRuns == 2

\* tasks.py:253  [:100]
RecentLimit == 100
\* models.py:82  threshold=0.7, in tenths
HeadlineThreshold == 7
\* models.py:108  headline_similarity >= 0.4, in tenths
ModerateThreshold == 4
\* models.py:124  0.6 * headline_similarity, in tenths
HeadlineWeight == 6
\* models.py:124  0.4 * detail_similarity, in tenths
DetailWeight == 4
\* models.py:125  combined >= 0.5, in tenths
CombinedThreshold == 5

\* the sections of the user
ItemSections == {1, 2}

\* models.py:110-112
stop_words ==
    { "the", "a", "an", "and", "or", "but", "in", "on", "at", "to", "of",
      "for", "with", "by", "is", "are", "was", "were", "that", "this", "it",
      "has", "have", "had", "be", "been", "from", "as" }

\* text.lower()
LowerText(text) == [i \in DOMAIN text |-> Lower(text[i])]

\* set(text.lower().split())
WordSet(text) == { Lower(text[i]) : i \in DOMAIN text }

\* NewsItem.is_similar_to(headline, details) with the default threshold; the
\* quotients are compared after multiplying out the denominators
is_similar_to(self, headline, details) ==
    LET headline_words == WordSet(self.headline)
        new_headline_words == WordSet(headline)
        h_intersection == Cardinality(headline_words \cap new_headline_words)
        h_union == Cardinality(headline_words \cup new_headline_words)
        detail_words == WordSet(self.details) \ stop_words
        new_detail_words == WordSet(details) \ stop_words
        d_intersection == Cardinality(detail_words \cap new_detail_words)
        d_union == Cardinality(detail_words \cup new_detail_words)
    IN  IF LowerText(self.headline) = LowerText(headline) THEN TRUE
        ELSE IF headline_words = {} \/ new_headline_words = {} THEN FALSE
        ELSE IF 10 * h_intersection >= HeadlineThreshold * h_union THEN TRUE
        ELSE IF /\ 10 * h_intersection >= ModerateThreshold * h_union
                /\ details # <<>> /\ self.details # <<>>
                /\ detail_words # {} /\ new_detail_words # {}
             THEN HeadlineWeight * h_intersection * d_union
                    + DetailWeight * d_intersection * h_union
                  >= CombinedThreshold * h_union * d_union
        ELSE FALSE

\* an item of the model's answer
Item(headline, details) == [headline |-> headline, details |-> details]

FedRaises ==
    Item(<<"Fed", "raises", "rates">>,
         <<"the", "central", "bank", "lifted", "rates">>)

\* 3 of 4 headline words shared with FedRaises
FedRaisesAgain ==
    Item(<<"fed", "raises", "rates", "again">>, <<"another", "increase">>)

\* 3 of 6 headline words shared with FedRaises, and the same details
FedSurprises ==
    Item(<<"fed", "raises", "rates", "surprising", "markets", "today">>,
         <<"central", "bank", "lifted", "rates">>)

Storm == Item(<<"storm", "closes", "airports">>, <<"flights", "cancelled">>)

SampleItems == { FedRaises, FedRaisesAgain, FedSurprises, Storm }

\* json.loads(summary_text) when it is valid: the items of the answer
SampleResponses ==
    { <<>>, <<FedSurprises>>, <<Storm, FedRaises>>,
      <<FedRaises, FedRaisesAgain>> }

\* a stored NewsItem row
StoredItem(sec, item, r) ==
    [news_section |-> sec, headline |-> item.headline,
     details |-> item.details, run |-> r]

Reverse(q) == [i \in 1..Len(q) |-> q[Len(q) + 1 - i]]

SectionRows(table, sec) == SelectSeq(table, LAMBDA r : r.news_section = sec)

\* lines 250-253: filter(news_section=section).order_by('-created_at')[:100]
RecentOf(table, sec) ==
    LET rows == Reverse(SectionRows(table, sec))
    IN  SubSeq(rows, 1, IF Len(rows) < RecentLimit THEN Len(rows) ELSE RecentLimit)

\* lines 463-471: the item is similar to one of the recent items
IsDuplicate(item, recent) ==
    \E i \in DOMAIN recent : is_similar_to(recent[i], item.headline, item.details)

\* lines 460-482: filtered_news_items
Filtered(answer, recent) ==
    SelectSeq(answer, LAMBDA item : ~IsDuplicate(item, recent))

\* the run ends: its return value is recorded
EndRun(value) ==
    /\ n_result' = Append(n_result, value)
    /\ n_pc' = "idle"

\* lines 193-223: a run starts for a user who has sections
N_StartRun ==
    /\ n_pc = "idle"
    /\ run < MaxRuns
    /\ run' = run + 1
    /\ n_sec' = 1
    /\ sections_data' = <<>>
    /\ n_pc' = "recent"
    /\ UNCHANGED <<news_table, recent_news_items, news_items, store_i,
                   section_result, emails, n_result>>
    /\ UNCHANGED <<vars, dvars, bvars, tvars, fvars, xvars, cvars, svars, wvars, rvars>>

\* lines 249-265 and 361-366: the recent items of the section are read and
\* section_result starts empty; an exception of the query ends the run
N_Recent ==
    /\ n_pc = "recent"
    /\ \/ /\ recent_news_items' = RecentOf(news_table, n_sec)
          /\ section_result' = [sec |-> n_sec, items |-> <<>>, error |-> FALSE]
          /\ n_pc' = "summarize"
          /\ UNCHANGED n_result
       \/ /\ EndRun("False")
          /\ UNCHANGED <<recent_news_items, section_result>>
    /\ UNCHANGED <<run, n_sec, news_table, news_items, store_i, sections_data,
                   emails>>
    /\ UNCHANGED <<vars, dvars, bvars, tvars, fvars, xvars, cvars, svars, wvars, rvars>>

\* lines 368-482: the answer is requested and parsed and its duplicates are
\* dropped; an answer that cannot be parsed (533-534) and an exception
\* (536-538) become the section's error
N_Summarize ==
    /\ n_pc = "summarize"
    /\ \/ \E answer \in SampleResponses :
            /\ news_items' = Filtered(answer, recent_news_items)
            /\ store_i' = 1
            /\ n_pc' = "store"
            /\ UNCHANGED section_result
       \/ /\ section_result' = [section_result EXCEPT !.error = TRUE]
          /\ n_pc' = "end_section"
          /\ UNCHANGED <<news_items, store_i>>
    /\ UNCHANGED <<run, n_sec, news_table, recent_news_items, sections_data,
                   emails, n_result>>
    /\ UNCHANGED <<vars, dvars, bvars, tvars, fvars, xvars, cvars, svars, wvars, rvars>>

\* lines 486-531, one iteration: the item is saved and added to the items of
\* the section; save() may raise, and so may the handling of its sources
\* after the row is saved; both end in the except clause of lines 536-538
N_Store ==
    /\ n_pc = "store"
    /\ store_i <= Len(news_items)
    /\ \E exit \in {"ok", "save_raises", "sources_raise"} :
        /\ news_table' =
              IF exit = "save_raises" THEN news_table
              ELSE Append(news_table, StoredItem(n_sec, news_items[store_i], run))
        /\ IF exit = "ok"
           THEN /\ section_result' =
                      [section_result EXCEPT
                          !.items = Append(@, news_items[store_i])]
                /\ store_i' = store_i + 1
                /\ UNCHANGED n_pc
           ELSE /\ section_result' = [section_result EXCEPT !.error = TRUE]
                /\ n_pc' = "end_section"
                /\ UNCHANGED store_i
    /\ UNCHANGED <<run, n_sec, recent_news_items, news_items, sections_data,
                   emails, n_result>>
    /\ UNCHANGED <<vars, dvars, bvars, tvars, fvars, xvars, cvars, svars, wvars, rvars>>

\* the loop of lines 486-531 is over
N_Stored ==
    /\ n_pc = "store"
    /\ store_i > Len(news_items)
    /\ n_pc' = "end_section"
    /\ UNCHANGED <<run, n_sec, news_table, recent_news_items, news_items,
                   store_i, section_result, sections_data, emails, n_result>>
    /\ UNCHANGED <<vars, dvars, bvars, tvars, fvars, xvars, cvars, svars, wvars, rvars>>

\* line 540: sections_data.append(section_result), then the next section
N_EndSection ==
    /\ n_pc = "end_section"
    /\ sections_data' = Append(sections_data, section_result)
    /\ IF n_sec + 1 \in ItemSections
       THEN n_sec' = n_sec + 1 /\ n_pc' = "recent"
       ELSE n_pc' = "email" /\ UNCHANGED n_sec
    /\ UNCHANGED <<run, news_table, recent_news_items, news_items, store_i,
                   section_result, emails, n_result>>
    /\ UNCHANGED <<vars, dvars, bvars, tvars, fvars, xvars, cvars, svars, wvars, rvars>>

\* lines 542-590: the email is built from sections_data and sent, or the
\* rendering or the sending raises
N_Email ==
    /\ n_pc = "email"
    /\ \/ /\ emails' = Append(emails, [run |-> run, sections |-> sections_data])
          /\ EndRun("True")
       \/ /\ EndRun("False")
          /\ UNCHANGED emails
    /\ UNCHANGED <<run, n_sec, news_table, recent_news_items, news_items,
                   store_i, section_result, sections_data>>
    /\ UNCHANGED <<vars, dvars, bvars, tvars, fvars, xvars, cvars, svars, wvars, rvars>>

NextItems ==
    \/ N_StartRun
    \/ N_Recent
    \/ N_Summarize
    \/ N_Store
    \/ N_Stored
    \/ N_EndSection
    \/ N_Email

\* the digest runs of one user, one after the other
SpecItems ==
    Init /\ [][NextItems]_<<vars, dvars, bvars, tvars, fvars, xvars, cvars, ovars>>

TypeOKItems ==
    /\ n_pc \in {"idle", "recent", "summarize", "store", "end_section", "email"}
    /\ run \in 0..MaxRuns
    /\ \A i \in DOMAIN news_table : news_table[i].news_section \in ItemSections
    /\ Len(n_result) <= run


-----------------------------------------------------------------------------
(* Properties of the stored news items *)

\* the row is among the items of a section shown without error in the email
\* sent by the run that stored it
Delivered(row) ==
    \E e \in DOMAIN emails :
        /\ emails[e].run = row.run
        /\ \E k \in DOMAIN emails[e].sections :
            LET shown == emails[e].sections[k] IN
            /\ shown.sec = row.news_section
            /\ ~shown.error
            /\ \E j \in DOMAIN shown.items :
                  shown.items[j] = Item(row.headline, row.details)

\* C32: every NewsItem persisted by a digest run is delivered by that run:
\* once the run is over, each stored item appears among the items of the
\* email the run sent, and none is left stored for a section reported as an
\* error or for a run whose email was never sent
C32_StoredItemsDelivered ==
    n_pc = "idle" => \A i \in DOMAIN news_table : Delivered(news_table[i])

\* C35: no two of the 100 most recent stored items of a section are similar
\* to each other, items stored in the same run included
C35_NoSimilarRecentItems ==
    \A sec \in ItemSections :
        LET recent == RecentOf(news_table, sec) IN
        \A i, j \in DOMAIN recent :
            i # j => ~is_similar_to(recent[i], recent[j].headline,
                                    recent[j].details)


-----------------------------------------------------------------------------
(* check_scheduled_emails (tasks.py:1068-1108) run by the interval schedule *)
(* of setup_periodic_tasks.py:17-62.  Time is counted in ticks, Resolution *)
(* ticks to the minute; a TimeSlot holds a whole minute (views.py:282).    *)

\* ticks per minute
Resolution == 2
\* largest delay, in ticks, between the instant an execution is due and the
\* instant it reads the clock
MaxDelay == 2

\* setup_periodic_tasks.py:24  every=5
IntervalMinutes == 5
\* tasks.py:1078  timedelta(minutes=5)
WindowMinutes == 5
\* tasks.py:1076  current_time.time(): minutes of a day
MinutesPerDay == 1440

Period == IntervalMinutes * Resolution

DayTicks == MinutesPerDay * Resolution

\* executions due within one day
ExecutionsPerDay == MinutesPerDay \div IntervalMinutes

\* the TimeSlot tables: one slot at midnight; slots at noon and just before
\* midnight; slots of one user three minutes apart and one off the
\* five-minute grid
SampleSlotSets ==
    { { <<1, 0>> },
      { <<1, 720>>, <<2, 1438>> },
      { <<1, 2>>, <<1, 5>>, <<2, 727>> } }

\* datetime.time(): the time of day of an instant
TimeOfDay(instant) == instant % DayTicks

\* the time of a TimeSlot row, in ticks
SlotTime(slot) == slot[2] * Resolution

\* lines 1087-1100: time__gte=five_mins_ago_time, time__lte=current_time_only,
\* or the union of the two filters when the range crosses midnight
InWindow(t, five_mins_ago_time, current_time_only) ==
    IF five_mins_ago_time > current_time_only
    THEN t >= five_mins_ago_time \/ t <= current_time_only
    ELSE t >= five_mins_ago_time /\ t <= current_time_only

\* the slots that an execution reading the clock at instant now matches
Matching(now) ==
    { slot \in time_slots :
        InWindow(SlotTime(slot), TimeOfDay(now + DayTicks - WindowMinutes * Resolution),
                 TimeOfDay(now)) }

\* the periodic task is set up: the slots are configured and the first
\* execution is due at some instant of the first period
S_Setup ==
    /\ s_pc = "setup"
    /\ \E slots \in SampleSlotSets, first \in 0..(Period - 1) :
        /\ time_slots' = slots
        /\ enqueued' = [slot \in slots |-> 0]
        /\ due' = first
    /\ s_pc' = "running"
    /\ UNCHANGED executions
    /\ UNCHANGED <<vars, dvars, bvars, tvars, fvars, xvars, cvars, nvars, wvars, rvars>>

\* one execution of check_scheduled_emails: it reads the clock at or after
\* the instant it was due and enqueues send_news_update for every matching
\* slot (lines 1105-1108); the next execution is due one interval later
S_Check ==
    /\ s_pc = "running"
    /\ executions < ExecutionsPerDay
    /\ \E delay \in 0..MaxDelay :
        enqueued' = [slot \in time_slots |->
                        IF slot \in Matching(due + delay)
                        THEN enqueued[slot] + 1 ELSE enqueued[slot]]
    /\ due' = due + Period
    /\ executions' = executions + 1
    /\ UNCHANGED <<s_pc, time_slots>>
    /\ UNCHANGED <<vars, dvars, bvars, tvars, fvars, xvars, cvars, nvars, wvars, rvars>>

\* a day of executions is over
S_DayOver ==
    /\ s_pc = "running"
    /\ executions = ExecutionsPerDay
    /\ s_pc' = "day_over"
    /\ UNCHANGED <<time_slots, due, executions, enqueued>>
    /\ UNCHANGED <<vars, dvars, bvars, tvars, fvars, xvars, cvars, nvars, wvars, rvars>>

NextSchedule ==
    \/ S_Setup
    \/ S_Check
    \/ S_DayOver

\* one day of the periodic task
SpecSchedule ==
    Init /\ [][NextSchedule]_<<vars, dvars, bvars, tvars, fvars, xvars, cvars, ovars>>

TypeOKSchedule ==
    /\ s_pc \in {"setup", "running", "day_over"}
    /\ executions \in 0..ExecutionsPerDay
    /\ DOMAIN enqueued = time_slots

\* C34: with check_scheduled_emails executed every 5 minutes, every
\* configured time slot causes send_news_update to be enqueued for its user
\* exactly once per day: never twice, and once when the day is over
C34_EachSlotOncePerDay ==
    \A slot \in time_slots :
        /\ enqueued[slot] <= 1
        /\ s_pc = "day_over" => enqueued[slot] = 1


-----------------------------------------------------------------------------
(* The web requests of views.py, the scheduler and the digest task, as far *)
(* as they decide who is sent a digest.  Every request but signup is made  *)
(* by a logged-in user (login_required).                                   *)

\* largest number of unused verification codes of a user
MaxCodes == 2
\* largest number of send_news_update tasks waiting
MaxQueue == 2

SectionNames == {"tech", "world"}

\* any logged-in user may add a section
MayAddSection_anyone(u) == registered[u]

\* views.py:210-212: add_news_section redirects an unverified user
MayAddSection(u) == email_verified[u]

\* the sequence q without its element i
Without(q, i) == SubSeq(q, 1, i - 1) \o SubSeq(q, i + 1, Len(q))

\* views.py:24-43: signup creates the user, the profile and a first code
W_Signup(u) ==
    /\ ~registered[u]
    /\ registered' = [registered EXCEPT ![u] = TRUE]
    /\ codes' = [codes EXCEPT ![u] = 1]
    /\ UNCHANGED <<email_verified, owned, has_slots, task_queue, last_run>>
    /\ UNCHANGED <<vars, dvars, bvars, tvars, fvars, xvars, cvars, nvars, svars, rvars>>

\* views.py:49-80: a posted code that is unused and not expired verifies the
\* email; any other code changes nothing
W_VerifyEmail(u) ==
    /\ registered[u]
    /\ ~email_verified[u]
    /\ codes[u] > 0
    /\ codes' = [codes EXCEPT ![u] = @ - 1]
    /\ email_verified' = [email_verified EXCEPT ![u] = TRUE]
    /\ UNCHANGED <<registered, owned, has_slots, task_queue, last_run>>
    /\ UNCHANGED <<vars, dvars, bvars, tvars, fvars, xvars, cvars, nvars, svars, rvars>>

\* views.py:82-103: a new code for a user who is not verified yet
W_ResendVerification(u) ==
    /\ registered[u]
    /\ ~email_verified[u]
    /\ codes[u] < MaxCodes
    /\ codes' = [codes EXCEPT ![u] = @ + 1]
    /\ UNCHANGED <<registered, email_verified, owned, has_slots, task_queue,
                   last_run>>
    /\ UNCHANGED <<vars, dvars, bvars, tvars, fvars, xvars, cvars, nvars, svars, rvars>>

\* views.py:206-225
W_AddNewsSection(u) ==
    /\ registered[u]
    /\ MayAddSection(u)
    /\ Len(owned[u]) < MaxSections
    /\ \E name \in SectionNames : owned' = [owned EXCEPT ![u] = Append(@, name)]
    /\ UNCHANGED <<registered, email_verified, codes, has_slots, task_queue,
                   last_run>>
    /\ UNCHANGED <<vars, dvars, bvars, tvars, fvars, xvars, cvars, nvars, svars, rvars>>

\* views.py:227-241: a section of the user is changed
W_EditNewsSection(u) ==
    /\ registered[u]
    /\ \E i \in DOMAIN owned[u], name \in SectionNames :
        /\ name # owned[u][i]
        /\ owned' = [owned EXCEPT ![u][i] = name]
    /\ UNCHANGED <<registered, email_verified, codes, has_slots, task_queue,
                   last_run>>
    /\ UNCHANGED <<vars, dvars, bvars, tvars, fvars, xvars, cvars, nvars, svars, rvars>>

\* views.py:243-253: a section of the user is deleted
W_DeleteNewsSection(u) ==
    /\ registered[u]
    /\ \E i \in DOMAIN owned[u] : owned' = [owned EXCEPT ![u] = Without(@, i)]
    /\ UNCHANGED <<registered, email_verified, codes, has_slots, task_queue,
                   last_run>>
    /\ UNCHANGED <<vars, dvars, bvars, tvars, fvars, xvars, cvars, nvars, svars, rvars>>

\* views.py:255-320: the time slots of the user are replaced by the posted
\* ones; the view does not look at email_verified
W_UpdateTimeSlots(u) ==
    /\ registered[u]
    /\ has_slots' = IF u \in has_slots THEN has_slots \ {u} ELSE has_slots \cup {u}
    /\ UNCHANGED <<registered, email_verified, codes, owned, task_queue, last_run>>
    /\ UNCHANGED <<vars, dvars, bvars, tvars, fvars, xvars, cvars, nvars, svars, rvars>>

\* views.py:322-338: send_now enqueues the task for a verified user who has
\* a section
W_SendNow(u) ==
    /\ registered[u]
    /\ email_verified[u]
    /\ owned[u] # <<>>
    /\ Len(task_queue) < MaxQueue
    /\ task_queue' = Append(task_queue, u)
    /\ UNCHANGED <<registered, email_verified, codes, owned, has_slots, last_run>>
    /\ UNCHANGED <<vars, dvars, bvars, tvars, fvars, xvars, cvars, nvars, svars, rvars>>

\* tasks.py:1105-1108: the task is enqueued for the owner of a matching slot
W_CheckScheduledEmails ==
    /\ Len(task_queue) < MaxQueue
    /\ \E u \in has_slots : task_queue' = Append(task_queue, u)
    /\ UNCHANGED <<registered, email_verified, codes, owned, has_slots, last_run>>
    /\ UNCHANGED <<vars, dvars, bvars, tvars, fvars, xvars, cvars, nvars, svars, rvars>>

\* tasks.py:203-208 and 568-590: the task runs; without sections it returns
\* at once, otherwise it sends the digest to the user or fails
W_SendNewsUpdate ==
    /\ task_queue # <<>>
    /\ task_queue' = Tail(task_queue)
    /\ LET u == Head(task_queue) IN
       \E emailed \in BOOLEAN :
          /\ emailed => owned[u] # <<>>
          /\ last_run' = [user |-> u, verified |-> email_verified[u],
                          sections |-> Len(owned[u]), sent |-> emailed]
    /\ UNCHANGED <<registered, email_verified, codes, owned, has_slots>>
    /\ UNCHANGED <<vars, dvars, bvars, tvars, fvars, xvars, cvars, nvars, svars, rvars>>

NextWeb ==
    \/ \E u \in Users : W_Signup(u)
    \/ \E u \in Users : W_VerifyEmail(u)
    \/ \E u \in Users : W_ResendVerification(u)
    \/ \E u \in Users : W_AddNewsSection(u)
    \/ \E u \in Users : W_EditNewsSection(u)
    \/ \E u \in Users : W_DeleteNewsSection(u)
    \/ \E u \in Users : W_UpdateTimeSlots(u)
    \/ \E u \in Users : W_SendNow(u)
    \/ W_CheckScheduledEmails
    \/ W_SendNewsUpdate

\* any sequence of web requests, scheduler executions and digest tasks
SpecWeb ==
    Init /\ [][NextWeb]_<<vars, dvars, bvars, tvars, fvars, xvars, cvars, ovars>>

TypeOKWeb ==
    /\ \A u \in Users : codes[u] \in 0..MaxCodes /\ Len(owned[u]) <= MaxSections
    /\ Len(task_queue) <= MaxQueue
    /\ has_slots \subseteq Users

\* C36: a digest email is only ever sent to a user whose email_verified flag
\* is true and who has a section; an unverified user never owns a section
C36_DigestOnlyToVerified ==
    /\ (last_run # None /\ last_run.sent) =>
          (last_run.verified /\ last_run.sections > 0)
    /\ \A u \in Users : owned[u] # <<>> => email_verified[u]

\* the task enqueued by the scheduler for an unverified user with time slots
\* ran without sending a digest, while another user is verified and has a
\* section
C36_Witness ==
    /\ last_run # None
    /\ ~last_run.verified /\ ~last_run.sent /\ last_run.user \in has_slots
    /\ \E u \in Users : email_verified[u] /\ owned[u] # <<>>


-----------------------------------------------------------------------------
(* update_section_order (views.py:164-204): one POST request whose body is *)
(* a JSON object with the list "order".                                    *)

\* largest number of ids in a submitted list
MaxOrderLen == 3

\* the values of a JSON list
Num(n) == [kind |-> "int", num |-> n]

Str(text) == [kind |-> "str", text |-> text]

\* a JSON number with a fraction, in tenths
Float(tenths) == [kind |-> "float", tenths |-> tenths]

Bool(b) == [kind |-> "bool", b |-> b]

Null == [kind |-> "null"]

SampleIds ==
    { Num(1), Num(2), Num(3), Num(4), Num(9), Str("2"), Str(" 3 "), Str("x"),
      Float(15), Bool(TRUE), Null }

\* the outcomes of a conversion
Value(n) == [value |-> n]

Raises(e) == [raises |-> e]

\* int(text) for the sample strings: the number, or ValueError
IntOfStr(text) ==
    CASE text = "2" -> Value(2)
      [] text = " 3 " -> Value(3)
      [] OTHER -> Raises("ValueError")

\* int(id_str) (line 176): integers are kept, numeric strings parsed, floats
\* truncated, booleans counted as 0 and 1; other strings raise ValueError and
\* null raises TypeError
int(v) ==
    CASE v.kind = "int" -> Value(v.num)
      [] v.kind = "str" -> IntOfStr(v.text)
      [] v.kind = "float" -> Value(v.tenths \div 10)
      [] v.kind = "bool" -> Value(IF v.b THEN 1 ELSE 0)
      [] OTHER -> Raises("TypeError")

\* the NewsSection tables: orders set, and every order at its default 0
SampleSectionTables ==
    { (1 :> [owner |-> 1, order |-> 0]) @@ (2 :> [owner |-> 1, order |-> 1])
        @@ (3 :> [owner |-> 1, order |-> 2]) @@ (4 :> [owner |-> 2, order |-> 0]),
      (1 :> [owner |-> 1, order |-> 0]) @@ (2 :> [owner |-> 1, order |-> 0])
        @@ (3 :> [owner |-> 2, order |-> 0]) @@ (4 :> [owner |-> 2, order |-> 0]) }

\* the lists of at most MaxOrderLen sample values
SampleOrders == UNION { [1..n -> SampleIds] : n \in 0..MaxOrderLen }

\* the exception the list comprehension of line 176 raises, "" if none: that
\* of the first element that cannot be converted
ConversionError(order) ==
    LET bad == { i \in DOMAIN order : "raises" \in DOMAIN int(order[i]) }
    IN  IF bad = {} THEN ""
        ELSE int(order[CHOOSE i \in bad : \A j \in bad : i <= j]).raises

\* lines 181-182: the sections of the user among the ids
OwnedAmong(table, user, section_ids) ==
    { id \in DOMAIN table :
        table[id].owner = user /\ \E i \in DOMAIN section_ids : section_ids[i] = id }

\* lines 189-192 after the first k iterations: the last index wins for an id
Reordered(table, section_ids, k) ==
    [id \in DOMAIN table |->
        IF \E i \in 1..k : section_ids[i] = id
        THEN [table[id] EXCEPT !.order =
                (CHOOSE i \in 1..k :
                    /\ section_ids[i] = id
                    /\ \A j \in 1..k : section_ids[j] = id => j <= i) - 1]
        ELSE table[id]]

R_Setup ==
    /\ r_pc = "setup"
    /\ \E table \in SampleSectionTables : news_sections' = table
    /\ r_pc' = "ready"
    /\ UNCHANGED <<before, request, status>>
    /\ UNCHANGED <<vars, dvars, bvars, tvars, fvars, xvars, cvars, nvars, svars, wvars>>

\* lines 167-204: the ids are converted and checked against the sections of
\* the user, then the orders are saved one by one; an exception of a save is
\* caught in the view (lines 199-203), which returns status 500
R_UpdateSectionOrder ==
    /\ r_pc = "ready"
    /\ \E user \in Users, order \in SampleOrders, saved \in 0..MaxOrderLen :
        LET section_ids == [i \in DOMAIN order |-> int(order[i]).value] IN
        /\ request' = [user |-> user, order |-> order]
        /\ before' = news_sections
        /\ IF ConversionError(order) = "ValueError"
           THEN status' = 400 /\ UNCHANGED news_sections
           ELSE IF ConversionError(order) = "TypeError"
           THEN status' = 500 /\ UNCHANGED news_sections
           ELSE IF Cardinality(OwnedAmong(news_sections, user, section_ids))
                      # Len(section_ids)
           THEN status' = 400 /\ UNCHANGED news_sections
           ELSE /\ saved <= Len(section_ids)
                /\ news_sections' = Reordered(news_sections, section_ids, saved)
                /\ status' = IF saved = Len(section_ids) THEN 200 ELSE 500
    /\ r_pc' = "done"
    /\ UNCHANGED <<vars, dvars, bvars, tvars, fvars, xvars, cvars, nvars, svars, wvars>>

NextOrder ==
    \/ R_Setup
    \/ R_UpdateSectionOrder

\* one update_section_order request
SpecOrder ==
    Init /\ [][NextOrder]_<<vars, dvars, bvars, tvars, fvars, xvars, cvars, ovars>>

TypeOKOrder ==
    /\ r_pc \in {"setup", "ready", "done"}
    /\ status \in {0, 200, 400, 500}
    /\ r_pc # "setup" => DOMAIN news_sections = 1..4

\* the submitted value is an integer, written as a number or as a string
IsInteger(v) == v.kind = "int" \/ (v.kind = "str" /\ v.text \in {"2", " 3 "})

\* every submitted id is an integer, none is submitted twice and each is a
\* section of the requesting user
ValidOrder ==
    /\ \A i \in DOMAIN request.order : IsInteger(request.order[i])
    /\ \A i, j \in DOMAIN request.order :
          int(request.order[i]) = int(request.order[j]) => i = j
    /\ \A i \in DOMAIN request.order :
          /\ int(request.order[i]).value \in DOMAIN before
          /\ before[int(request.order[i]).value].owner = request.user

\* C38: update_section_order is all-or-nothing and confined to the
\* requesting user: when a submitted id is not an integer, is duplicated or
\* is not a section of the user, no order changes; otherwise exactly the
\* listed sections get the orders 0..n-1 in the submitted sequence; sections
\* of other users are never modified
C38_AllOrNothing ==
    r_pc = "done" =>
        /\ ~ValidOrder => news_sections = before
        /\ ValidOrder =>
              \A id \in DOMAIN before :
                  IF \E i \in DOMAIN request.order : int(request.order[i]).value = id
                  THEN \E i \in DOMAIN request.order :
                          /\ int(request.order[i]).value = id
                          /\ news_sections[id] = [before[id] EXCEPT !.order = i - 1]
                  ELSE news_sections[id] = before[id]
        /\ \A id \in DOMAIN before :
              before[id].owner # request.user => news_sections[id] = before[id]

====
